---- MODULE Spec2Model ----
(***************************************************************************)
(* State-machine model of backend/debate/orchestrator.py                   *)
(* (DebateOrchestrator).  One step of the model is the code that run()     *)
(* executes between two suspension points (awaits); stop() and             *)
(* add_intervention() are called by other tasks and interleave with run()  *)
(* at those points only (asyncio is cooperative).                          *)
(***************************************************************************)
EXTENDS Integers, Sequences, FiniteSets, TLC

(* ------------------------------ bounds --------------------------------- *)
\* longest provider stream, in fragments
MaxChunks == 2
\* number of add_intervention() calls in one behaviour
MaxInterventions == 1
\* number of exceptions raised by providers, the database and the broadcast
\* callback in one behaviour
MaxFailures == 1
\* rounds of one run that are explored: a run that would start a round beyond
\* start_round + MaxRun - 1 is not followed further
MaxRun == 2
\* longest configured participant list the reordering is explored on
MaxModels == 3
\* number of add_intervention() calls in one behaviour of the queue's
\* specification
MaxQueued == 2
\* WebSocket connections the hosting process accepts in one behaviour
MaxSockets == 2

(* ------------------------- program constants --------------------------- *)
max_rounds == 10

VISION_MODELS == {"gpt-5.2", "gpt-5", "gpt-5-mini", "gpt-4o", "gpt-4o-mini",
                  "grok-4.1", "grok-4"}
VISION_PROVIDERS == {"anthropic", "google"}

\* provider preference list of _check_agreement
check_models == << <<"google", "gemini-2.0-flash">>,
                   <<"openai", "gpt-5-mini">>,
                   <<"anthropic", "claude-haiku-4-5-20251001">>,
                   <<"deepseek", "deepseek-chat">> >>

(* ----------------------------- participants ---------------------------- *)
Claude == [provider |-> "anthropic", model_id |-> "claude-sonnet-4-5", model_name |-> "Claude"]
DeepSeek == [provider |-> "deepseek",  model_id |-> "deepseek-chat",     model_name |-> "DeepSeek"]
Grok == [provider |-> "xai",       model_id |-> "grok-4",            model_name |-> "Grok"]
Grok3 == [provider |-> "xai",       model_id |-> "grok-3",            model_name |-> "Grok 3"]

\* fragments a provider stream is made of, and the texts users send
ChunkAlphabet == <<"a", "b", "c", "d">>
InterventionTexts == <<"u1", "u2", "u3">>

\* the stream of length n: a finite, single-pass sequence of fragments
StreamOfLen(n) == [k \in 1..n |-> ChunkAlphabet[k]]

(* ------------------------------ helpers -------------------------------- *)
Range(s) == {s[i] : i \in 1..Len(s)}

\* DebateOrchestrator._supports_vision
_supports_vision(model_config) ==
    \/ model_config.provider \in VISION_PROVIDERS
    \/ model_config.model_id \in VISION_MODELS

\* DebateOrchestrator._reorder_models_for_vision: stable partition
_reorder_unchanged(ms) == ms

\* the partition with the non-vision group in reverse order
_reorder_not_stable(ms) ==
    LET v == SelectSeq(ms, LAMBDA m : _supports_vision(m))
        n == SelectSeq(ms, LAMBDA m : ~_supports_vision(m))
    IN  v \o [i \in 1..Len(n) |-> n[Len(n) + 1 - i]]

_reorder_models_for_vision(ms) ==
    SelectSeq(ms, LAMBDA m : _supports_vision(m))
      \o SelectSeq(ms, LAMBDA m : ~_supports_vision(m))

\* the participant order after __init__
InitialModels(ms, imgs) ==
    IF imgs THEN _reorder_models_for_vision(ms) ELSE ms

(* context strings are modelled as sequences of segments *)
Seg(kind, name, content) == [kind |-> kind, name |-> name, content |-> content]

MsgSegs(msgs) ==
    [i \in 1..Len(msgs) |-> Seg("msg", msgs[i].model_name, msgs[i].content)]

\* DebateOrchestrator._build_context
_build_context_shows_all(round_num, msgs, memory, previous) ==
    (IF memory THEN <<Seg("user_info", "", <<>>)>> ELSE <<>>)
      \o (IF previous THEN <<Seg("background", "", <<>>)>> ELSE <<>>)
      \o <<Seg("topic", "", <<>>)>>
      \o <<Seg("discussion_so_far", "", <<>>)>>
      \o MsgSegs(msgs)
      \o <<Seg("find_middle_ground", "", <<>>)>>

\* _build_context without the User messages in rounds >= 2
_build_context_hides_user(round_num, msgs, memory, previous) ==
    (IF memory THEN <<Seg("user_info", "", <<>>)>> ELSE <<>>)
      \o (IF previous THEN <<Seg("background", "", <<>>)>> ELSE <<>>)
      \o <<Seg("topic", "", <<>>)>>
      \o (IF round_num = 1
          THEN (IF previous THEN <<Seg("follow_up_opinion", "", <<>>)>>
                            ELSE <<Seg("own_opinion", "", <<>>)>>)
          ELSE <<Seg("discussion_so_far", "", <<>>)>>
                 \o MsgSegs(SelectSeq(msgs, LAMBDA msg : msg.provider # "user"))
                 \o <<Seg("find_middle_ground", "", <<>>)>>)

_build_context(round_num, msgs, memory, previous) ==
    (IF memory THEN <<Seg("user_info", "", <<>>)>> ELSE <<>>)
      \o (IF previous THEN <<Seg("background", "", <<>>)>> ELSE <<>>)
      \o <<Seg("topic", "", <<>>)>>
      \o (IF round_num = 1
          THEN (IF previous THEN <<Seg("follow_up_opinion", "", <<>>)>>
                            ELSE <<Seg("own_opinion", "", <<>>)>>)
          ELSE <<Seg("discussion_so_far", "", <<>>)>>
                 \o MsgSegs(msgs)
                 \o <<Seg("find_middle_ground", "", <<>>)>>)

(* the checker's reply is a character string *)
Upper(c) ==
    CASE c = "a" -> "A" [] c = "g" -> "G" [] c = "r" -> "R" [] c = "e" -> "E"
      [] c = "d" -> "D" [] c = "i" -> "I" [] c = "s" -> "S" [] c = "n" -> "N"
      [] c = "o" -> "O" [] OTHER -> c

StrUpper(s) == [i \in 1..Len(s) |-> Upper(s[i])]

\* Python's  sub in s
Contains(sub, s) ==
    \E i \in 0..(Len(s) - Len(sub)) :
        \A j \in 1..Len(sub) : s[i + j] = sub[j]

AGREE == <<"A", "G", "R", "E", "E">>

\* replies the checker model may give
CheckerReplies == { <<"A", "G", "R", "E", "E">>,
                    <<"D", "I", "S", "A", "G", "R", "E", "E">>,
                    <<"a", "g", "r", "e", "e">>,
                    <<"N", "O">>,
                    <<>> }

\* line 595:  "AGREE" in full_response.upper()
ReplyIsAgreement(full_response) == Contains(AGREE, StrUpper(full_response))


(* ------------------------------- state --------------------------------- *)
VARIABLES
    \* constructor arguments (fixed for a run)
    config,               \* the request's config: models as configured, rounds, streams
    models,               \* self.models, after vision reordering
    api_keys,             \* providers that have a credential
    images,               \* TRUE iff self.images is not empty
    summarizer_index,     \* Optional[int]: <<>> is None, <<i>> is i
    start_round,
    previous_context,     \* TRUE iff self.previous_context is set
    user_memory_context,  \* TRUE iff self.user_memory_context is set
    user_id,              \* TRUE iff self.user_id is set
    \* orchestrator fields
    messages,             \* self.messages, the in-memory transcript
    stopped,              \* self._stopped
    queue,                \* self._intervention_queue
    \* run(): position and locals
    pc, round_num, model_index, full_response, chunkPos, status,
    agreement_reached,
    check_response,       \* full_response of _check_agreement
    \* collaborators
    dbStatus,             \* debates.status of this debate
    dbMessages,           \* rows of the messages table of this debate
    statusLog,            \* the statuses run() has persisted, in order
    connections,          \* websockets in debate_connections of this debate
    events,               \* what run() has handed to on_message, in order
    memTask,              \* the detached _extract_and_save_memory task
    \* history
    calls,                \* provider streams opened: who, round, context, images
    checks,               \* invocations of _check_agreement
    enq,                  \* the intervention_received events: the interventions
                          \* accepted by add_intervention, which broadcasts
                          \* from the caller's task, in no fixed position
                          \* among the events of run()
    turnNo,               \* participant turns begun so far
    faults,               \* where exceptions were raised so far
    escaped,              \* an exception reached run()'s handler
    stopAt,               \* when stop() was called: "never", while run() was
                          \* "running" (before line 152 or 165), or while its
                          \* last status write was awaited
    observedAt,           \* <<>>, or <<n>>: run() first found the stop flag set
                          \* at a checkpoint of its loops when it had emitted
                          \* n events
    \* the hosting process (routes.py)
    debateRows,           \* debates.status of every debate
    handlers,             \* the debate_websocket handlers: position, debate,
                          \* the status read from the row at lines 597-602
    active_debates,       \* debate id -> orchestrator (0: no entry)
    debate_connections,   \* debate id -> websockets
    orchestrators,        \* the DebateOrchestrator objects created, each with
                          \* its run() task: debate, transcript, stop flag,
                          \* intervention queue, position
    actor                 \* the orchestrator the last step of the hosting
                          \* process called or ran (0: none)

cfgVars == <<config, models, api_keys, images, summarizer_index, start_round,
             previous_context, user_memory_context, user_id>>
runVars == <<pc, round_num, model_index, full_response, chunkPos, status,
             agreement_reached, check_response>>
histVars == <<calls, checks, enq, turnNo, faults, escaped, stopAt, observedAt>>
orchVars == <<cfgVars, messages, stopped, queue, runVars, dbStatus, dbMessages,
              statusLog, connections, events, memTask, histVars>>
hostVars == <<debateRows, handlers, active_debates, debate_connections,
              orchestrators, actor>>
vars == <<orchVars, hostVars>>

\* the debates and the websockets of the hosting process
Debates == {"d1", "d2"}
Sockets == 1..MaxSockets

\* the hosting process before any websocket is opened: every debate row has
\* been created by POST /api/debates and is pending
HostInit ==
    /\ debateRows = [d \in Debates |-> "pending"]
    /\ handlers = [s \in Sockets |-> [pc |-> "new", debate |-> "", seen |-> ""]]
    /\ active_debates = [d \in Debates |-> 0]
    /\ debate_connections = [d \in Debates |-> {}]
    /\ orchestrators = <<>>
    /\ actor = 0

N == Len(models)

LoopPcs == {"loop", "turn", "interv_save", "interv_sent", "stream", "chunk",
            "msg_save", "round_end", "agree_wait"}
\* positions at which a participant's turn is suspended
TurnPcs == {"interv_save", "interv_sent", "stream", "chunk", "msg_save"}

\* a provider, the database or the callback may raise
MayFail == Len(faults) < MaxFailures

\* an event: round is the round it was emitted in, detail carries the status of
\* debate_end and the error text of model_error / summary_error / error:
\* "no_api_key", "exception" for what a provider or the database raised,
\* "delivery" for what the callback raised
Ev(type, name, round, content, detail) ==
    [type |-> type, model_name |-> name, round |-> round, content |-> content,
     detail |-> detail]

Msg(round, name, provider, content) ==
    [round |-> round, model_name |-> name, provider |-> provider,
     content |-> content]

\* messages of the transcript that participant m produced itself
OwnCount(msgs, m) ==
    Cardinality({i \in 1..Len(msgs) : /\ msgs[i].model_name = m.model_name
                                      /\ msgs[i].provider = m.provider})

\* the fragments the provider of participant m streams
StreamOf(m) == StreamOfLen(config.streamLen[m.model_name])

(* ------------------------------- Init ---------------------------------- *)
\* __init__ (lines 23-42) applied to one request
Construct(cfg, keys, imgs, uid, memo) ==
    /\ config = cfg
    /\ models = InitialModels(cfg.models, imgs)
    /\ api_keys = keys
    /\ images = imgs
    /\ summarizer_index = cfg.summarizer_index
    /\ start_round = cfg.start_round
    /\ previous_context = cfg.previous_context
    /\ user_memory_context = memo
    /\ user_id = uid
    /\ messages = <<>>
    /\ stopped = FALSE
    /\ queue = <<>>
    /\ pc = "init"
    /\ round_num = cfg.start_round
    /\ model_index = 0
    /\ full_response = <<>>
    /\ chunkPos = 0
    /\ status = "none"
    /\ agreement_reached = FALSE
    /\ check_response = <<>>
    /\ dbStatus = "pending"
    /\ dbMessages = <<>>
    /\ statusLog = <<>>
    /\ connections = 1
    /\ events = <<>>
    /\ memTask = "none"
    /\ calls = <<>>
    /\ checks = <<>>
    /\ enq = <<>>
    /\ turnNo = 0
    /\ faults = <<>>
    /\ escaped = FALSE
    /\ stopAt = "never"
    /\ observedAt = <<>>
    /\ HostInit


(* --------------------------- shared fragments -------------------------- *)
\* Python indexing of a list with a possibly negative index
PyIndexOk(s, i) == -Len(s) <= i /\ i < Len(s)
PyIndex(s, i) == IF i >= 0 THEN s[i + 1] ELSE s[Len(s) + i + 1]

\* the participant whose turn it is (enumerate(self.models), line 180)
Current == models[model_index + 1]

\* an exception reaches the handler of run() (lines 165-169): the error event
\* is broadcast and the handler awaits the status write
Escape(evs) ==
    /\ events' = events \o evs \o <<Ev("error", "", 0, <<>>, "exception")>>
    /\ pc' = "error_write"
    /\ escaped' = TRUE

\* Conclude with the final status chosen without reading the stop flag
Conclude_ignores_stop(evs) ==
    /\ events' = events \o evs
    /\ memTask' = IF user_id /\ ~stopped THEN "spawned" ELSE memTask
    /\ status' = "completed"
    /\ pc' = "status_write"
    /\ escaped' = escaped

\* lines 147-153: spawn the memory task, choose the final status, start the
\* status write
Conclude(evs) ==
    /\ events' = events \o evs
    /\ memTask' = IF user_id /\ ~stopped THEN "spawned" ELSE memTask
    /\ status' = IF stopped THEN "stopped" ELSE "completed"
    /\ pc' = "status_write"
    /\ escaped' = escaped

\* lines 143-153 with the head of _generate_summary (lines 403-417)
Finish ==
    IF ~stopped /\ models # <<>>
    THEN IF summarizer_index = <<>>
         THEN \* None >= len(self.models) raises TypeError
              /\ Escape(<<>>)
              /\ UNCHANGED <<memTask, status>>
         ELSE LET i == summarizer_index[1] IN
              IF i >= Len(models)
              THEN Conclude(<<>>)
              ELSE IF ~PyIndexOk(models, i)
              THEN \* self.models[i] raises IndexError
                   /\ Escape(<<>>)
                   /\ UNCHANGED <<memTask, status>>
              ELSE IF PyIndex(models, i).provider \notin api_keys
              THEN Conclude(<<>>)
              ELSE /\ events' = Append(events,
                          Ev("summary_start", PyIndex(models, i).model_name, 0, <<>>, ""))
                   /\ pc' = "sum_start"
                   /\ UNCHANGED <<memTask, status, escaped>>
    ELSE Conclude(<<>>)

\* StartTurn without the credential check of line 214
StartTurn_unchecked ==
    /\ events' = Append(events,
           Ev("model_start", Current.model_name, round_num, <<>>, ""))
    /\ pc' = "stream"
    /\ model_index' = model_index

\* lines 208-228: the credential check and model_start
StartTurn ==
    IF Current.provider \notin api_keys
    THEN /\ events' = Append(events,
                Ev("model_error", Current.model_name, round_num, <<>>, "no_api_key"))
         /\ pc' = "turn"
         /\ model_index' = model_index + 1
    ELSE /\ events' = Append(events,
                Ev("model_start", Current.model_name, round_num, <<>>, ""))
         /\ pc' = "stream"
         /\ model_index' = model_index

RECURSIVE LatestFrom(_, _, _, _)
\* lines 532-537: scan the transcript backwards, keep the first message seen of
\* each speaker, stop once limit speakers are known
LatestFrom(msgs, i, seen, limit) ==
    IF i = 0 \/ Cardinality(seen) >= limit THEN <<>>
    ELSE IF msgs[i].provider # "user" /\ msgs[i].model_name \notin seen
         THEN <<Seg("msg", msgs[i].model_name, msgs[i].content)>>
                \o LatestFrom(msgs, i - 1, seen \cup {msgs[i].model_name}, limit)
         ELSE LatestFrom(msgs, i - 1, seen, limit)

latest_responses(msgs, limit) ==
    IF Len(msgs) = 0 THEN <<>>
    ELSE \* the first pass of the loop body runs before the length test
         LET first == IF msgs[Len(msgs)].provider # "user"
                      THEN <<Seg("msg", msgs[Len(msgs)].model_name,
                                 msgs[Len(msgs)].content)>>
                      ELSE <<>>
             seen == {first[k].name : k \in 1..Len(first)}
         IN  first \o LatestFrom(msgs, Len(msgs) - 1, seen, limit)

\* lines 550-556: the first provider of check_models that has a credential
CheckProviders ==
    {i \in 1..Len(check_models) : check_models[i][1] \in api_keys}

(* ------------------------ calls from other tasks ----------------------- *)
\* stop(), lines 81-83.  A call made after run() has returned sets a flag
\* that nothing reads any more; the model follows the calls made while run()
\* is in progress.
Stop ==
    /\ pc # "done"
    /\ ~stopped
    /\ stopped' = TRUE
    /\ stopAt' = IF pc \in {"status_write", "error_write"} THEN pc ELSE "running"
    /\ UNCHANGED <<cfgVars, messages, queue, runVars, dbStatus, dbMessages,
                   events, memTask, calls, checks, enq, turnNo, faults, escaped,
                   statusLog, connections, observedAt>>
    /\ UNCHANGED hostVars

\* add_intervention(content), lines 85-92
AddIntervention ==
    /\ pc # "done"
    /\ Len(enq) < MaxInterventions
    /\ LET content == <<InterventionTexts[Len(enq) + 1]>> IN
       /\ queue' = Append(queue, content)
       /\ enq' = Append(enq, [content |-> content,
                              turn |-> IF pc \in TurnPcs THEN turnNo ELSE 0])
    /\ UNCHANGED <<cfgVars, messages, stopped, runVars, dbStatus, dbMessages,
                   events, memTask, calls, checks, turnNo, faults, escaped,
                   stopAt,
                   statusLog, connections, observedAt>>
    /\ UNCHANGED hostVars

\* add_intervention(content), lines 85-92, called up to MaxQueued times
AddInterventionRepeated ==
    /\ pc # "done"
    /\ Len(enq) < MaxQueued
    /\ LET content == <<InterventionTexts[Len(enq) + 1]>> IN
       /\ queue' = Append(queue, content)
       /\ enq' = Append(enq, [content |-> content,
                              turn |-> IF pc \in TurnPcs THEN turnNo ELSE 0])
    /\ UNCHANGED <<cfgVars, messages, stopped, runVars, dbStatus, dbMessages,
                   events, memTask, calls, checks, turnNo, faults, escaped,
                   stopAt,
                   statusLog, connections, observedAt>>
    /\ UNCHANGED hostVars

\* broadcast_message, routes.py lines 613-623: send_json raises for a
\* websocket while an event is delivered; the exception is caught and the
\* websocket is removed from debate_connections
DeliveryFails ==
    /\ pc # "done"
    /\ connections > 0
    /\ connections' = connections - 1
    /\ UNCHANGED <<cfgVars, messages, stopped, queue, runVars, dbStatus,
                   dbMessages, statusLog, events, memTask, histVars>>
    /\ UNCHANGED hostVars

\* the event run() handed to on_message last
LastEvent == events[Len(events)]

\* broadcast_message, routes.py lines 613-623 and 679-682: while send_json is
\* awaited the handler of the websocket removes it from debate_connections
\* (the client has gone), then send_json raises, and
\* debate_connections[debate_id].remove(ws) raises ValueError, which leaves
\* the callback and _broadcast at the place in run() that broadcast the event
DeliveryRaises ==
    /\ connections > 0
    /\ MayFail
    /\ events # <<>>
    /\ connections' = connections - 1
    /\ faults' = Append(faults, "delivery")
    /\ IF pc = "chunk" /\ chunkPos > 0
       THEN \* line 307, inside the try of line 230
            /\ events' = Append(events,
                   Ev("model_error", Current.model_name, round_num, <<>>, "delivery"))
            /\ pc' = "turn"
            /\ model_index' = model_index + 1
            /\ UNCHANGED escaped
       ELSE IF pc = "turn" /\ LastEvent.type = "model_end"
       THEN \* line 259, inside the try of line 230, after the message was stored
            /\ events' = Append(events,
                   Ev("model_error", LastEvent.model_name, round_num, <<>>, "delivery"))
            /\ UNCHANGED <<pc, model_index, escaped>>
       ELSE IF \/ pc = "sum_chunk" /\ chunkPos > 0
               \/ pc = "sum_done" /\ LastEvent.type = "summary_end"
       THEN \* lines 479 and 493, inside the try of line 419
            /\ events' = Append(events, Ev("summary_error", "", 0, <<>>, "delivery"))
            /\ pc' = "sum_done"
            /\ UNCHANGED <<model_index, escaped>>
       ELSE IF pc = "error_write"
       THEN \* line 166, inside the handler: the exception leaves run()
            /\ pc' = "done"
            /\ UNCHANGED <<events, model_index, escaped>>
       ELSE \* lines 117, 125, 135, 160, 202, 215, 223, 267, 414, 499
            /\ \/ pc = "turn" /\ LastEvent.type \in {"round_start", "model_error"}
               \/ pc \in {"interv_sent", "stream", "round_end", "finish", "sum_start"}
               \/ pc = "sum_done" /\ LastEvent.type = "summary_error"
               \/ pc = "done" /\ LastEvent.type = "debate_end"
            /\ Escape(<<>>)
            /\ UNCHANGED model_index
    /\ UNCHANGED <<cfgVars, messages, stopped, queue, round_num, full_response,
                   chunkPos, status, agreement_reached, check_response, dbStatus,
                   dbMessages, statusLog, memTask, calls, checks, enq, turnNo,
                   stopAt, observedAt>>
    /\ UNCHANGED hostVars

(* -------------------------------- run() -------------------------------- *)
\* a checkpoint of the loops (lines 116, 181, 304) reads the stop flag
Observe == observedAt' = IF stopped /\ observedAt = <<>>
                         THEN <<Len(events)>> ELSE observedAt

\* lines 104-114: the status write 'running'
RunStart ==
    /\ pc = "init"
    /\ \/ /\ dbStatus' = "running"
          /\ statusLog' = Append(statusLog, "running")
          /\ pc' = "loop"
          /\ UNCHANGED <<events, faults, escaped>>
       \/ /\ MayFail
          /\ Escape(<<>>)
          /\ faults' = Append(faults, "status_running")
          /\ UNCHANGED <<dbStatus, statusLog>>
    /\ UNCHANGED <<cfgVars, messages, stopped, queue, round_num, model_index,
                   full_response, chunkPos, status, agreement_reached,
                   check_response, dbMessages, memTask, calls, checks, enq,
                   turnNo, stopAt,
                   connections, observedAt>>
    /\ UNCHANGED hostVars

\* RoundLoop without the cap of line 116: the loop goes on until stop()
RoundLoop_uncapped ==
    /\ pc = "loop"
    /\ ~stopped => round_num < start_round + MaxRun
    /\ check_response' = <<>>
    /\ Observe
    /\ IF ~stopped
       THEN /\ events' = Append(events, Ev("round_start", "", round_num, <<>>, ""))
            /\ model_index' = 0
            /\ pc' = "turn"
            /\ UNCHANGED <<status, memTask, escaped>>
       ELSE /\ Finish
            /\ UNCHANGED model_index
    /\ UNCHANGED <<cfgVars, messages, stopped, queue, round_num, full_response,
                   chunkPos, agreement_reached, dbStatus, dbMessages, calls,
                   checks, enq, turnNo, faults, stopAt,
                   statusLog, connections>>
    /\ UNCHANGED hostVars

\* line 116-121: the loop condition and round_start; lines 143-153 when it fails
RoundLoop ==
    /\ pc = "loop"
    /\ (~stopped /\ round_num <= max_rounds) => round_num < start_round + MaxRun
    /\ check_response' = <<>>
    /\ Observe
    /\ IF ~stopped /\ round_num <= max_rounds
       THEN /\ events' = Append(events, Ev("round_start", "", round_num, <<>>, ""))
            /\ model_index' = 0
            /\ pc' = "turn"
            /\ UNCHANGED <<status, memTask, escaped>>
       ELSE /\ Finish
            /\ UNCHANGED model_index
    /\ UNCHANGED <<cfgVars, messages, stopped, queue, round_num, full_response,
                   chunkPos, agreement_reached, dbStatus, dbMessages, calls,
                   checks, enq, turnNo, faults, stopAt,
                   statusLog, connections>>
    /\ UNCHANGED hostVars

\* TurnHead without the check of the stop flag of lines 181-182
TurnHead_unchecked ==
    /\ pc = "turn"
    /\ UNCHANGED observedAt
    /\ IF model_index >= N
       THEN /\ events' = Append(events, Ev("round_end", "", round_num, <<>>, ""))
            /\ pc' = "round_end"
            /\ UNCHANGED <<messages, queue, model_index, turnNo>>
       ELSE /\ turnNo' = turnNo + 1
            /\ IF queue # <<>>
               THEN /\ messages' = Append(messages,
                                     Msg(round_num, "User", "user", Head(queue)))
                    /\ queue' = Tail(queue)
                    /\ pc' = "interv_save"
                    /\ UNCHANGED <<events, model_index>>
               ELSE /\ StartTurn
                    /\ UNCHANGED <<messages, queue>>
    /\ UNCHANGED <<cfgVars, stopped, round_num, full_response, chunkPos, status,
                   agreement_reached, check_response, dbStatus, dbMessages,
                   memTask, calls, checks, enq, faults, escaped, stopAt,
                   statusLog, connections>>
    /\ UNCHANGED hostVars

\* TurnHead with a queue that hands out the newest intervention first
TurnHead_lifo ==
    /\ pc = "turn"
    /\ IF model_index < N THEN Observe ELSE UNCHANGED observedAt
    /\ IF model_index >= N \/ stopped
       THEN /\ events' = Append(events, Ev("round_end", "", round_num, <<>>, ""))
            /\ pc' = "round_end"
            /\ UNCHANGED <<messages, queue, model_index, turnNo>>
       ELSE /\ turnNo' = turnNo + 1
            /\ IF queue # <<>>
               THEN /\ messages' = Append(messages,
                                     Msg(round_num, "User", "user", queue[Len(queue)]))
                    /\ queue' = SubSeq(queue, 1, Len(queue) - 1)
                    /\ pc' = "interv_save"
                    /\ UNCHANGED <<events, model_index>>
               ELSE /\ StartTurn
                    /\ UNCHANGED <<messages, queue>>
    /\ UNCHANGED <<cfgVars, stopped, round_num, full_response, chunkPos, status,
                   agreement_reached, check_response, dbStatus, dbMessages,
                   memTask, calls, checks, enq, faults, escaped, stopAt,
                   statusLog, connections>>
    /\ UNCHANGED hostVars

\* TurnHead with model_start broadcast before the pending intervention is
\* handled
TurnHead_starts_first ==
    /\ pc = "turn"
    /\ IF model_index < N THEN Observe ELSE UNCHANGED observedAt
    /\ IF model_index >= N \/ stopped
       THEN /\ events' = Append(events, Ev("round_end", "", round_num, <<>>, ""))
            /\ pc' = "round_end"
            /\ UNCHANGED <<messages, queue, model_index, turnNo>>
       ELSE /\ turnNo' = turnNo + 1
            /\ IF queue # <<>>
               THEN /\ messages' = Append(messages,
                                     Msg(round_num, "User", "user", Head(queue)))
                    /\ queue' = Tail(queue)
                    /\ pc' = "interv_save"
                    /\ events' = Append(events,
                           Ev("model_start", Current.model_name, round_num, <<>>, ""))
                    /\ UNCHANGED model_index
               ELSE /\ StartTurn
                    /\ UNCHANGED <<messages, queue>>
    /\ UNCHANGED <<cfgVars, stopped, round_num, full_response, chunkPos, status,
                   agreement_reached, check_response, dbStatus, dbMessages,
                   memTask, calls, checks, enq, faults, escaped, stopAt,
                   statusLog, connections>>
    /\ UNCHANGED hostVars

\* lines 180-206 / 125-128: the head of one iteration of the participant loop
TurnHead ==
    /\ pc = "turn"
    /\ IF model_index < N THEN Observe ELSE UNCHANGED observedAt
    /\ IF model_index >= N \/ stopped
       THEN /\ events' = Append(events, Ev("round_end", "", round_num, <<>>, ""))
            /\ pc' = "round_end"
            /\ UNCHANGED <<messages, queue, model_index, turnNo>>
       ELSE /\ turnNo' = turnNo + 1
            /\ IF queue # <<>>
               THEN /\ messages' = Append(messages,
                                     Msg(round_num, "User", "user", Head(queue)))
                    /\ queue' = Tail(queue)
                    /\ pc' = "interv_save"
                    /\ UNCHANGED <<events, model_index>>
               ELSE /\ StartTurn
                    /\ UNCHANGED <<messages, queue>>
    /\ UNCHANGED <<cfgVars, stopped, round_num, full_response, chunkPos, status,
                   agreement_reached, check_response, dbStatus, dbMessages,
                   memTask, calls, checks, enq, faults, escaped, stopAt,
                   statusLog, connections>>
    /\ UNCHANGED hostVars

\* InterventionSaved without the _save_message of lines 195-200
InterventionSaved_not_persisted ==
    /\ pc = "interv_save"
    /\ \/ /\ dbMessages' = dbMessages
          /\ events' = Append(events,
                 Ev("user_intervention", "", round_num,
                    messages[Len(messages)].content, ""))
          /\ pc' = "interv_sent"
          /\ UNCHANGED <<faults, escaped>>
       \/ /\ MayFail
          /\ Escape(<<>>)
          /\ faults' = Append(faults, "intervention_save")
          /\ UNCHANGED dbMessages
    /\ UNCHANGED <<cfgVars, messages, stopped, queue, round_num, model_index,
                   full_response, chunkPos, status, agreement_reached,
                   check_response, dbStatus, memTask, calls, checks, enq,
                   turnNo, stopAt,
                   statusLog, connections, observedAt>>
    /\ UNCHANGED hostVars

\* lines 195-206: the intervention is persisted, then broadcast
InterventionSaved ==
    /\ pc = "interv_save"
    /\ \/ /\ dbMessages' = Append(dbMessages, messages[Len(messages)])
          /\ events' = Append(events,
                 Ev("user_intervention", "", round_num,
                    messages[Len(messages)].content, ""))
          /\ pc' = "interv_sent"
          /\ UNCHANGED <<faults, escaped>>
       \/ /\ MayFail
          /\ Escape(<<>>)
          /\ faults' = Append(faults, "intervention_save")
          /\ UNCHANGED dbMessages
    /\ UNCHANGED <<cfgVars, messages, stopped, queue, round_num, model_index,
                   full_response, chunkPos, status, agreement_reached,
                   check_response, dbStatus, memTask, calls, checks, enq,
                   turnNo, stopAt,
                   statusLog, connections, observedAt>>
    /\ UNCHANGED hostVars

\* lines 208-228 after an intervention
AfterIntervention ==
    /\ pc = "interv_sent"
    /\ StartTurn
    /\ UNCHANGED <<cfgVars, messages, stopped, queue, round_num, full_response,
                   chunkPos, status, agreement_reached, check_response, dbStatus,
                   dbMessages, memTask, calls, checks, enq, turnNo, faults,
                   escaped, stopAt,
                   statusLog, connections, observedAt>>
    /\ UNCHANGED hostVars

\* OpenStream without the round test of line 296: the images are passed in
\* every round
OpenStream_every_round ==
    /\ pc = "stream"
    /\ calls' = Append(calls,
          [kind |-> "turn", model_name |-> Current.model_name,
           round |-> round_num, turn |-> turnNo,
           context |-> _build_context(round_num, messages,
                                      user_memory_context, previous_context),
           images |-> (images /\ _supports_vision(Current))])
    /\ full_response' = <<>>
    /\ chunkPos' = 0
    /\ pc' = "chunk"
    /\ UNCHANGED <<cfgVars, messages, stopped, queue, round_num, model_index,
                   status, agreement_reached, check_response, dbStatus,
                   dbMessages, events, memTask, checks, enq, turnNo, faults,
                   escaped, stopAt,
                   statusLog, connections, observedAt>>
    /\ UNCHANGED hostVars

\* lines 230-241 and 284-303: the context is built and the stream is opened
OpenStream ==
    /\ pc = "stream"
    /\ calls' = Append(calls,
          [kind |-> "turn", model_name |-> Current.model_name,
           round |-> round_num, turn |-> turnNo,
           context |-> _build_context(round_num, messages,
                                      user_memory_context, previous_context),
           images |-> (round_num = 1 /\ images /\ _supports_vision(Current))])
    /\ full_response' = <<>>
    /\ chunkPos' = 0
    /\ pc' = "chunk"
    /\ UNCHANGED <<cfgVars, messages, stopped, queue, round_num, model_index,
                   status, agreement_reached, check_response, dbStatus,
                   dbMessages, events, memTask, checks, enq, turnNo, faults,
                   escaped, stopAt,
                   statusLog, connections, observedAt>>
    /\ UNCHANGED hostVars

\* NextChunk with the try/except of lines 230-272 missing: the exception of
\* the stream reaches the handler of run()
NextChunk_escapes ==
    /\ pc = "chunk"
    /\ \/ /\ chunkPos < Len(StreamOf(Current))
          /\ Observe
          /\ IF stopped
             THEN /\ pc' = "msg_save"
                  /\ UNCHANGED <<full_response, chunkPos, events>>
             ELSE /\ full_response' = Append(full_response,
                                             StreamOf(Current)[chunkPos + 1])
                  /\ chunkPos' = chunkPos + 1
                  /\ events' = Append(events,
                         Ev("chunk", Current.model_name, round_num,
                            <<StreamOf(Current)[chunkPos + 1]>>, ""))
                  /\ pc' = "chunk"
          /\ UNCHANGED <<model_index, faults, escaped>>
       \/ /\ chunkPos = Len(StreamOf(Current))
          /\ pc' = "msg_save"
          /\ UNCHANGED <<full_response, chunkPos, events, model_index, faults,
                         escaped, observedAt>>
       \/ /\ MayFail
          /\ Escape(<<>>)
          /\ faults' = Append(faults, "stream")
          /\ UNCHANGED <<full_response, chunkPos, model_index, observedAt>>
    /\ UNCHANGED <<cfgVars, messages, stopped, queue, round_num, status,
                   agreement_reached, check_response, dbStatus, dbMessages,
                   memTask, calls, checks, enq, turnNo, stopAt,
                   statusLog, connections>>
    /\ UNCHANGED hostVars

\* NextChunk with the first fragment forwarded but not accumulated
NextChunk_forwards_only ==
    /\ pc = "chunk"
    /\ \/ /\ chunkPos < Len(StreamOf(Current))
          /\ Observe
          /\ IF stopped
             THEN /\ pc' = "msg_save"
                  /\ UNCHANGED <<full_response, chunkPos, events>>
             ELSE /\ full_response' = IF chunkPos = 0 THEN full_response
                                       ELSE Append(full_response,
                                                   StreamOf(Current)[chunkPos + 1])
                  /\ chunkPos' = chunkPos + 1
                  /\ events' = Append(events,
                         Ev("chunk", Current.model_name, round_num,
                            <<StreamOf(Current)[chunkPos + 1]>>, ""))
                  /\ pc' = "chunk"
          /\ UNCHANGED <<model_index, faults>>
       \/ /\ chunkPos = Len(StreamOf(Current))
          /\ pc' = "msg_save"
          /\ UNCHANGED <<full_response, chunkPos, events, model_index, faults,
                         observedAt>>
       \/ /\ MayFail
          /\ events' = Append(events,
                 Ev("model_error", Current.model_name, round_num, <<>>, "exception"))
          /\ pc' = "turn"
          /\ model_index' = model_index + 1
          /\ faults' = Append(faults, "stream")
          /\ UNCHANGED <<full_response, chunkPos, observedAt>>
    /\ UNCHANGED <<cfgVars, messages, stopped, queue, round_num, status,
                   agreement_reached, check_response, dbStatus, dbMessages,
                   memTask, calls, checks, enq, turnNo, escaped, stopAt,
                   statusLog, connections>>
    /\ UNCHANGED hostVars

\* lines 303-315, 244, 266-272: one fragment, the end of the stream, or an exception
NextChunk ==
    /\ pc = "chunk"
    /\ \/ /\ chunkPos < Len(StreamOf(Current))
          /\ Observe
          /\ IF stopped
             THEN /\ pc' = "msg_save"
                  /\ UNCHANGED <<full_response, chunkPos, events>>
             ELSE /\ full_response' = Append(full_response,
                                             StreamOf(Current)[chunkPos + 1])
                  /\ chunkPos' = chunkPos + 1
                  /\ events' = Append(events,
                         Ev("chunk", Current.model_name, round_num,
                            <<StreamOf(Current)[chunkPos + 1]>>, ""))
                  /\ pc' = "chunk"
          /\ UNCHANGED <<model_index, faults>>
       \/ /\ chunkPos = Len(StreamOf(Current))
          /\ pc' = "msg_save"
          /\ UNCHANGED <<full_response, chunkPos, events, model_index, faults,
                         observedAt>>
       \/ /\ MayFail
          /\ events' = Append(events,
                 Ev("model_error", Current.model_name, round_num, <<>>, "exception"))
          /\ pc' = "turn"
          /\ model_index' = model_index + 1
          /\ faults' = Append(faults, "stream")
          /\ UNCHANGED <<full_response, chunkPos, observedAt>>
    /\ UNCHANGED <<cfgVars, messages, stopped, queue, round_num, status,
                   agreement_reached, check_response, dbStatus, dbMessages,
                   memTask, calls, checks, enq, turnNo, escaped, stopAt,
                   statusLog, connections>>
    /\ UNCHANGED hostVars

\* MessageSaved with the message put at the head of self.messages
MessageSaved_prepends ==
    /\ pc = "msg_save"
    /\ \/ /\ dbMessages' = Append(dbMessages,
                 Msg(round_num, Current.model_name, Current.provider, full_response))
          /\ messages' = <<Msg(round_num, Current.model_name, Current.provider,
                              full_response)>> \o messages
          /\ events' = Append(events,
                 Ev("model_end", Current.model_name, round_num, <<>>, ""))
          /\ UNCHANGED faults
       \/ /\ MayFail
          /\ events' = Append(events,
                 Ev("model_error", Current.model_name, round_num, <<>>, "exception"))
          /\ faults' = Append(faults, "save")
          /\ UNCHANGED <<dbMessages, messages>>
    /\ pc' = "turn"
    /\ model_index' = model_index + 1
    /\ UNCHANGED <<cfgVars, stopped, queue, round_num, full_response, chunkPos,
                   status, agreement_reached, check_response, dbStatus, memTask,
                   calls, checks, enq, turnNo, escaped, stopAt,
                   statusLog, connections, observedAt>>
    /\ UNCHANGED hostVars

\* lines 244-272: the message is persisted, appended and model_end is broadcast
MessageSaved ==
    /\ pc = "msg_save"
    /\ \/ /\ dbMessages' = Append(dbMessages,
                 Msg(round_num, Current.model_name, Current.provider, full_response))
          /\ messages' = Append(messages,
                 Msg(round_num, Current.model_name, Current.provider, full_response))
          /\ events' = Append(events,
                 Ev("model_end", Current.model_name, round_num, <<>>, ""))
          /\ UNCHANGED faults
       \/ /\ MayFail
          /\ events' = Append(events,
                 Ev("model_error", Current.model_name, round_num, <<>>, "exception"))
          /\ faults' = Append(faults, "save")
          /\ UNCHANGED <<dbMessages, messages>>
    /\ pc' = "turn"
    /\ model_index' = model_index + 1
    /\ UNCHANGED <<cfgVars, stopped, queue, round_num, full_response, chunkPos,
                   status, agreement_reached, check_response, dbStatus, memTask,
                   calls, checks, enq, turnNo, escaped, stopAt,
                   statusLog, connections, observedAt>>
    /\ UNCHANGED hostVars


\* RoundEnd with a _check_agreement that returns True when no provider of
\* check_models has a credential (lines 558-560)
RoundEnd_fails_open ==
    /\ pc = "round_end"
    /\ IF round_num >= 2 /\ Len(messages) >= N * 2
       THEN /\ checks' = Append(checks,
                   [round |-> round_num,
                    counts |-> [i \in 1..N |-> OwnCount(messages, models[i])]])
            /\ IF Len(latest_responses(messages, N)) < 2
               THEN \* return False
                    /\ round_num' = round_num + 1
                    /\ pc' = "loop"
                    /\ UNCHANGED <<calls, agreement_reached, events>>
               ELSE IF CheckProviders = {}
               THEN \* return True
                    /\ agreement_reached' = TRUE
                    /\ events' = Append(events,
                           Ev("agreement_reached", "", round_num, <<>>, ""))
                    /\ pc' = "finish"
                    /\ UNCHANGED <<calls, round_num>>
               ELSE /\ calls' = Append(calls,
                          [kind |-> "agreement",
                           model_name |-> check_models[CHOOSE i \in CheckProviders :
                                             \A j \in CheckProviders : i <= j][1],
                           round |-> round_num, turn |-> turnNo,
                           context |-> latest_responses(messages, N),
                           images |-> FALSE])
                    /\ pc' = "agree_wait"
                    /\ UNCHANGED <<round_num, agreement_reached, events>>
       ELSE /\ round_num' = round_num + 1
            /\ pc' = "loop"
            /\ UNCHANGED <<checks, calls, agreement_reached, events>>
    /\ UNCHANGED <<cfgVars, messages, stopped, queue, model_index, full_response,
                   chunkPos, status, check_response, dbStatus,
                   dbMessages, memTask, enq, turnNo, faults, escaped,
                   stopAt,
                   statusLog, connections, observedAt>>
    /\ UNCHANGED hostVars

\* lines 125-141 with _check_agreement up to the opening of the checker's
\* stream (lines 532-592)
RoundEnd ==
    /\ pc = "round_end"
    /\ IF round_num >= 2 /\ Len(messages) >= N * 2
       THEN /\ checks' = Append(checks,
                   [round |-> round_num,
                    counts |-> [i \in 1..N |-> OwnCount(messages, models[i])]])
            /\ IF Len(latest_responses(messages, N)) < 2 \/ CheckProviders = {}
               THEN \* return False
                    /\ round_num' = round_num + 1
                    /\ pc' = "loop"
                    /\ UNCHANGED calls
               ELSE /\ calls' = Append(calls,
                          [kind |-> "agreement",
                           model_name |-> check_models[CHOOSE i \in CheckProviders :
                                             \A j \in CheckProviders : i <= j][1],
                           round |-> round_num, turn |-> turnNo,
                           context |-> latest_responses(messages, N),
                           images |-> FALSE])
                    /\ pc' = "agree_wait"
                    /\ UNCHANGED round_num
       ELSE /\ round_num' = round_num + 1
            /\ pc' = "loop"
            /\ UNCHANGED <<checks, calls>>
    /\ UNCHANGED <<cfgVars, messages, stopped, queue, model_index, full_response,
                   chunkPos, status, agreement_reached, check_response, dbStatus,
                   dbMessages, events, memTask, enq, turnNo, faults, escaped,
                   stopAt,
                   statusLog, connections, observedAt>>
    /\ UNCHANGED hostVars

\* AgreementReply with the break of line 139 missing
AgreementReply_no_break ==
    /\ pc = "agree_wait"
    /\ \/ \E reply \in CheckerReplies :
            /\ check_response' = reply
            /\ IF ReplyIsAgreement(reply)
               THEN /\ agreement_reached' = TRUE
                    /\ events' = Append(events,
                           Ev("agreement_reached", "", round_num, <<>>, ""))
               ELSE UNCHANGED <<agreement_reached, events>>
            /\ round_num' = round_num + 1
            /\ pc' = "loop"
            /\ UNCHANGED faults
       \/ /\ MayFail
          /\ faults' = Append(faults, "agreement")
          /\ round_num' = round_num + 1
          /\ pc' = "loop"
          /\ UNCHANGED <<agreement_reached, events, check_response>>
    /\ UNCHANGED <<cfgVars, messages, stopped, queue, model_index, full_response,
                   chunkPos, status, dbStatus, dbMessages, memTask, calls, checks,
                   enq, turnNo, escaped, stopAt,
                   statusLog, connections, observedAt>>
    /\ UNCHANGED hostVars

\* lines 587-599 and 133-141: the checker's reply, or its failure
AgreementReply ==
    /\ pc = "agree_wait"
    /\ \/ \E reply \in CheckerReplies :
            /\ check_response' = reply
            /\ IF ReplyIsAgreement(reply)
               THEN /\ agreement_reached' = TRUE
                    /\ events' = Append(events,
                           Ev("agreement_reached", "", round_num, <<>>, ""))
                    /\ pc' = "finish"
                    /\ UNCHANGED round_num
               ELSE /\ round_num' = round_num + 1
                    /\ pc' = "loop"
                    /\ UNCHANGED <<agreement_reached, events>>
            /\ UNCHANGED faults
       \/ /\ MayFail
          /\ faults' = Append(faults, "agreement")
          /\ round_num' = round_num + 1
          /\ pc' = "loop"
          /\ UNCHANGED <<agreement_reached, events, check_response>>
    /\ UNCHANGED <<cfgVars, messages, stopped, queue, model_index, full_response,
                   chunkPos, status, dbStatus, dbMessages, memTask, calls, checks,
                   enq, turnNo, escaped, stopAt,
                   statusLog, connections, observedAt>>
    /\ UNCHANGED hostVars

\* lines 139-153 after agreement_reached has been broadcast
AfterAgreement ==
    /\ pc = "finish"
    /\ check_response' = <<>>
    /\ Finish
    /\ UNCHANGED <<cfgVars, messages, stopped, queue, round_num, model_index,
                   full_response, chunkPos, agreement_reached, dbStatus,
                   dbMessages, calls, checks, enq, turnNo, faults, stopAt,
                   statusLog, connections, observedAt>>
    /\ UNCHANGED hostVars

\* _generate_summary
Summarizer == PyIndex(models, summarizer_index[1])

\* lines 464-470: the summary prompt
SummaryContext ==
    (IF previous_context THEN <<Seg("background", "", <<>>)>> ELSE <<>>)
      \o <<Seg("question", "", <<>>)>>
      \o MsgSegs(messages)
      \o <<Seg("create_summary", "", <<>>)>>

\* lines 419-475: the summarizer's stream is opened
SummaryOpen ==
    /\ pc = "sum_start"
    /\ calls' = Append(calls,
          [kind |-> "summary", model_name |-> Summarizer.model_name,
           round |-> 0, turn |-> turnNo, context |-> SummaryContext,
           images |-> FALSE])
    /\ full_response' = <<>>
    /\ chunkPos' = 0
    /\ pc' = "sum_chunk"
    /\ UNCHANGED <<cfgVars, messages, stopped, queue, round_num, model_index,
                   status, agreement_reached, check_response, dbStatus,
                   dbMessages, events, memTask, checks, enq, turnNo, faults,
                   escaped, stopAt,
                   statusLog, connections, observedAt>>
    /\ UNCHANGED hostVars

\* lines 475-483, 498-502
SummaryChunk ==
    /\ pc = "sum_chunk"
    /\ \/ /\ chunkPos < Len(StreamOf(Summarizer))
          /\ IF stopped
             THEN /\ pc' = "sum_save"
                  /\ UNCHANGED <<full_response, chunkPos, events>>
             ELSE /\ full_response' = Append(full_response,
                                             StreamOf(Summarizer)[chunkPos + 1])
                  /\ chunkPos' = chunkPos + 1
                  /\ events' = Append(events,
                         Ev("summary_chunk", Summarizer.model_name, 0,
                            <<StreamOf(Summarizer)[chunkPos + 1]>>, ""))
                  /\ pc' = "sum_chunk"
          /\ UNCHANGED faults
       \/ /\ chunkPos = Len(StreamOf(Summarizer))
          /\ pc' = "sum_save"
          /\ UNCHANGED <<full_response, chunkPos, events, faults>>
       \/ /\ MayFail
          /\ events' = Append(events, Ev("summary_error", "", 0, <<>>, "exception"))
          /\ pc' = "sum_done"
          /\ faults' = Append(faults, "summary_stream")
          /\ UNCHANGED <<full_response, chunkPos>>
    /\ UNCHANGED <<cfgVars, messages, stopped, queue, round_num, model_index,
                   status, agreement_reached, check_response, dbStatus,
                   dbMessages, memTask, calls, checks, enq, turnNo, escaped,
                   stopAt,
                   statusLog, connections, observedAt>>
    /\ UNCHANGED hostVars

\* SummarySaved with the write outside the try of line 419: its exception
\* reaches the handler of run()
SummarySaved_escapes ==
    /\ pc = "sum_save"
    /\ \/ /\ dbMessages' = Append(dbMessages,
                 Msg(0, Summarizer.model_name, Summarizer.provider, full_response))
          /\ events' = Append(events,
                 Ev("summary_end", Summarizer.model_name, 0, <<>>, ""))
          /\ pc' = "sum_done"
          /\ UNCHANGED <<faults, escaped>>
       \/ /\ MayFail
          /\ Escape(<<>>)
          /\ faults' = Append(faults, "summary_save")
          /\ UNCHANGED dbMessages
    /\ UNCHANGED <<cfgVars, messages, stopped, queue, round_num, model_index,
                   full_response, chunkPos, status, agreement_reached,
                   check_response, dbStatus, memTask, calls, checks, enq, turnNo,
                   stopAt,
                   statusLog, connections, observedAt>>
    /\ UNCHANGED hostVars

\* lines 485-502: the summary is persisted under round 0
SummarySaved ==
    /\ pc = "sum_save"
    /\ \/ /\ dbMessages' = Append(dbMessages,
                 Msg(0, Summarizer.model_name, Summarizer.provider, full_response))
          /\ events' = Append(events,
                 Ev("summary_end", Summarizer.model_name, 0, <<>>, ""))
          /\ UNCHANGED faults
       \/ /\ MayFail
          /\ events' = Append(events, Ev("summary_error", "", 0, <<>>, "exception"))
          /\ faults' = Append(faults, "summary_save")
          /\ UNCHANGED dbMessages
    /\ pc' = "sum_done"
    /\ UNCHANGED <<cfgVars, messages, stopped, queue, round_num, model_index,
                   full_response, chunkPos, status, agreement_reached,
                   check_response, dbStatus, memTask, calls, checks, enq, turnNo,
                   escaped, stopAt,
                   statusLog, connections, observedAt>>
    /\ UNCHANGED hostVars

\* lines 147-153 after _generate_summary has returned
AfterSummary ==
    /\ pc = "sum_done"
    /\ Conclude(<<>>)
    /\ UNCHANGED <<cfgVars, messages, stopped, queue, round_num, model_index,
                   full_response, chunkPos, agreement_reached, check_response,
                   dbStatus, dbMessages, calls, checks, enq, turnNo, faults,
                   stopAt,
                   statusLog, connections, observedAt>>
    /\ UNCHANGED hostVars

\* lines 153-163: the final status is persisted, then debate_end is broadcast
StatusWritten ==
    /\ pc = "status_write"
    /\ \/ /\ dbStatus' = status
          /\ statusLog' = Append(statusLog, status)
          /\ events' = Append(events, Ev("debate_end", "", 0, <<>>, status))
          /\ pc' = "done"
          /\ UNCHANGED <<faults, escaped>>
       \/ /\ MayFail
          /\ Escape(<<>>)
          /\ faults' = Append(faults, "status_final")
          /\ UNCHANGED <<dbStatus, statusLog>>
    /\ UNCHANGED <<cfgVars, messages, stopped, queue, round_num, model_index,
                   full_response, chunkPos, status, agreement_reached,
                   check_response, dbMessages, memTask, calls, checks, enq,
                   turnNo, stopAt,
                   connections, observedAt>>
    /\ UNCHANGED hostVars

\* lines 170-175: the handler persists 'error'; if that write raises too the
\* exception leaves run()
ErrorWritten ==
    /\ pc = "error_write"
    /\ \/ /\ dbStatus' = "error"
          /\ statusLog' = Append(statusLog, "error")
          /\ UNCHANGED faults
       \/ /\ MayFail
          /\ faults' = Append(faults, "status_error")
          /\ UNCHANGED <<dbStatus, statusLog>>
    /\ pc' = "done"
    /\ UNCHANGED <<cfgVars, messages, stopped, queue, round_num, model_index,
                   full_response, chunkPos, status, agreement_reached,
                   check_response, dbMessages, events, memTask, calls, checks,
                   enq, turnNo, escaped, stopAt,
                   connections, observedAt>>
    /\ UNCHANGED hostVars

\* MemoryExtraction without the try/except of lines 603-614 and awaited by
\* run(): its failure is persisted as the status of the debate
MemoryExtraction_surfaces ==
    /\ memTask = "spawned"
    /\ \/ /\ memTask' = "finished"
          /\ UNCHANGED <<dbStatus, statusLog>>
       \/ /\ memTask' = "failed"
          /\ dbStatus' = "error"
          /\ statusLog' = Append(statusLog, "error")
    /\ UNCHANGED <<cfgVars, messages, stopped, queue, runVars, dbMessages,
                   events, histVars, connections>>
    /\ UNCHANGED hostVars

\* _extract_and_save_memory, lines 601-614: finishes, or fails and is swallowed
MemoryExtraction ==
    /\ memTask = "spawned"
    /\ memTask' \in {"finished", "failed"}
    /\ UNCHANGED <<cfgVars, messages, stopped, queue, runVars, dbStatus,
                   dbMessages, events, histVars,
                   statusLog, connections>>
    /\ UNCHANGED hostVars

Next ==
    \/ Stop
    \/ AddIntervention
    \/ DeliveryFails
    \/ DeliveryRaises
    \/ RunStart
    \/ RoundLoop
    \/ TurnHead
    \/ InterventionSaved
    \/ AfterIntervention
    \/ OpenStream
    \/ NextChunk
    \/ MessageSaved
    \/ RoundEnd
    \/ AgreementReply
    \/ AfterAgreement
    \/ SummaryOpen
    \/ SummaryChunk
    \/ SummarySaved
    \/ AfterSummary
    \/ StatusWritten
    \/ ErrorWritten
    \/ MemoryExtraction

(* ------------------------- the hosting process ------------------------- *)
\* DebateOrchestrator.__init__, lines 23-38: the fields run(), stop() and
\* add_intervention() work on are created for the new object
NewOrchestrator(d) ==
    [debate |-> d, messages |-> <<>>, stopped |-> FALSE, queue |-> <<>>,
     received |-> 0, pc |-> "init"]

\* the orchestrator registered for the debate of handler s (0: none)
Registered(s) == active_debates[handlers[s].debate]

\* debate_websocket, routes.py lines 596-611: the debate row is read and the
\* websocket is added to the debate's connections
WebSocketAccept ==
    \E s \in Sockets, d \in Debates :
        /\ handlers[s].pc = "new"
        /\ handlers' = [handlers EXCEPT
              ![s] = [pc |-> "accepted", debate |-> d, seen |-> debateRows[d]]]
        /\ debate_connections' = [debate_connections EXCEPT ![d] = @ \cup {s}]
        /\ actor' = 0
        /\ UNCHANGED <<debateRows, active_debates, orchestrators, orchVars>>

\* routes.py lines 625-653: when the row that was read is pending, after the
\* awaits of lines 628 and 638 an orchestrator is created, registered and its
\* run() started as a task
StartPending ==
    \E s \in Sockets :
        /\ handlers[s].pc = "accepted"
        /\ handlers' = [handlers EXCEPT ![s].pc = "serving"]
        /\ IF handlers[s].seen = "pending"
           THEN /\ orchestrators' = Append(orchestrators,
                                           NewOrchestrator(handlers[s].debate))
                /\ active_debates' = [active_debates EXCEPT
                      ![handlers[s].debate] = Len(orchestrators) + 1]
                /\ actor' = Len(orchestrators) + 1
           ELSE /\ actor' = 0
                /\ UNCHANGED <<orchestrators, active_debates>>
        /\ UNCHANGED <<debateRows, debate_connections, orchVars>>

\* ReceiveStop with the stop applied to every registered orchestrator
ReceiveStop_everyone ==
    \E s \in Sockets :
        /\ handlers[s].pc = "serving"
        /\ Registered(s) # 0
        /\ orchestrators' = [o \in 1..Len(orchestrators) |->
              IF \E d \in Debates : active_debates[d] = o
              THEN [orchestrators[o] EXCEPT !.stopped = TRUE]
              ELSE orchestrators[o]]
        /\ actor' = Registered(s)
        /\ UNCHANGED <<debateRows, handlers, active_debates,
                       debate_connections, orchVars>>

\* routes.py lines 659-661: a stop message on the websocket
ReceiveStop ==
    \E s \in Sockets :
        /\ handlers[s].pc = "serving"
        /\ Registered(s) # 0
        /\ orchestrators' = [orchestrators EXCEPT ![Registered(s)].stopped = TRUE]
        /\ actor' = Registered(s)
        /\ UNCHANGED <<debateRows, handlers, active_debates,
                       debate_connections, orchVars>>

\* routes.py lines 662-667 and add_intervention: an intervention message
ReceiveIntervention ==
    \E s \in Sockets :
        /\ handlers[s].pc = "serving"
        /\ Registered(s) # 0
        /\ orchestrators[Registered(s)].received < MaxInterventions
        /\ orchestrators' = [orchestrators EXCEPT
              ![Registered(s)].queue =
                  Append(@, <<InterventionTexts[orchestrators[Registered(s)].received + 1]>>),
              ![Registered(s)].received = @ + 1]
        /\ actor' = Registered(s)
        /\ UNCHANGED <<debateRows, handlers, active_debates,
                       debate_connections, orchVars>>

\* routes.py lines 677-684: the handler ends; the debate's registry entry is
\* deleted with its last connection
WebSocketClosed ==
    \E s \in Sockets :
        /\ handlers[s].pc = "serving"
        /\ handlers' = [handlers EXCEPT ![s].pc = "gone"]
        /\ debate_connections' = [debate_connections EXCEPT
              ![handlers[s].debate] = @ \ {s}]
        /\ active_debates' = [active_debates EXCEPT
              ![handlers[s].debate] =
                  IF debate_connections[handlers[s].debate] \ {s} = {}
                  THEN 0 ELSE @]
        /\ actor' = 0
        /\ UNCHANGED <<debateRows, orchestrators, orchVars>>

\* stop_debate, routes.py lines 557-574: POST /api/debates/{id}/stop calls
\* stop() on the registered orchestrator, or writes 'stopped' to the row when
\* the debate has no entry in active_debates
StopRoute ==
    \E d \in Debates :
        /\ IF active_debates[d] # 0
           THEN /\ orchestrators' = [orchestrators EXCEPT
                      ![active_debates[d]].stopped = TRUE]
                /\ actor' = active_debates[d]
                /\ UNCHANGED debateRows
           ELSE /\ debateRows' = [debateRows EXCEPT ![d] = "stopped"]
                /\ actor' = 0
                /\ UNCHANGED orchestrators
        /\ UNCHANGED <<handlers, active_debates, debate_connections, orchVars>>

\* run() of orchestrator o, lines 105-110: 'running' is persisted
TaskRunStart ==
    \E o \in 1..Len(orchestrators) :
        /\ orchestrators[o].pc = "init"
        /\ debateRows' = [debateRows EXCEPT ![orchestrators[o].debate] = "running"]
        /\ orchestrators' = [orchestrators EXCEPT ![o].pc = "turn"]
        /\ actor' = o
        /\ UNCHANGED <<handlers, active_debates, debate_connections, orchVars>>

\* _run_round of orchestrator o, lines 180-192: the stop flag is read and a
\* pending intervention is taken into the transcript
TaskTurnHead ==
    \E o \in 1..Len(orchestrators) :
        /\ orchestrators[o].pc = "turn"
        /\ orchestrators' = [orchestrators EXCEPT
              ![o] = IF @.stopped
                     THEN [@ EXCEPT !.pc = "finish"]
                     ELSE IF @.queue # <<>>
                     THEN [@ EXCEPT !.messages =
                                       Append(@, Msg(1, "User", "user", Head(orchestrators[o].queue))),
                                    !.queue = Tail(@),
                                    !.pc = "stream"]
                     ELSE [@ EXCEPT !.pc = "stream"]]
        /\ actor' = o
        /\ UNCHANGED <<debateRows, handlers, active_debates,
                       debate_connections, orchVars>>

\* _run_round of orchestrator o, lines 243-256: the participant's message
\* joins the transcript
TaskMessageSaved ==
    \E o \in 1..Len(orchestrators) :
        /\ orchestrators[o].pc = "stream"
        /\ orchestrators' = [orchestrators EXCEPT
              ![o].messages = Append(@, Msg(1, Claude.model_name, Claude.provider,
                                            StreamOfLen(1))),
              ![o].pc = "finish"]
        /\ actor' = o
        /\ UNCHANGED <<debateRows, handlers, active_debates,
                       debate_connections, orchVars>>

\* run() of orchestrator o, lines 152-158: the final status is persisted
TaskStatusWritten ==
    \E o \in 1..Len(orchestrators) :
        /\ orchestrators[o].pc = "finish"
        /\ debateRows' = [debateRows EXCEPT ![orchestrators[o].debate] =
              IF orchestrators[o].stopped THEN "stopped" ELSE "completed"]
        /\ orchestrators' = [orchestrators EXCEPT ![o].pc = "done"]
        /\ actor' = o
        /\ UNCHANGED <<handlers, active_debates, debate_connections, orchVars>>

(* --------------------------- specifications ---------------------------- *)
\* a request: the config of the debate row, the user's credentials, whether
\* images are attached, whether a user identity and a memory note are given
Request(ms, lens, sidx, sr, keys, imgs, uid, memo) ==
    [models |-> ms, rounds |-> 3, streamLen |-> lens, summarizer_index |-> sidx,
     start_round |-> sr, previous_context |-> (sr > 1), api_keys |-> keys,
     images |-> imgs, user_id |-> uid, user_memory_context |-> memo]

\* the stream lengths: the first configured participant streams one fragment,
\* the others MaxChunks
Lens(ms) == [n \in {ms[i].model_name : i \in 1..Len(ms)} |->
                IF n = ms[1].model_name THEN 1 ELSE MaxChunks]

AllKeys == {"anthropic", "deepseek", "xai"}

\* the requests the behaviours of Spec start from
Requests ==
    { \* a new debate of two participants with an image attached
      Request(<<DeepSeek, Claude>>, Lens(<<DeepSeek, Claude>>), <<0>>, 1,
              AllKeys, TRUE, FALSE, TRUE),
      \* a continuation with an image, no credential for anthropic
      Request(<<DeepSeek, Claude>>, Lens(<<DeepSeek, Claude>>), <<0>>, 9,
              {"deepseek"}, TRUE, TRUE, FALSE),
      \* a continuation of a debate of one participant
      Request(<<Claude>>, Lens(<<Claude>>), <<0>>, 9,
              AllKeys, FALSE, TRUE, FALSE),
      \* a continuation of two xai participants, the only credential is xai's
      Request(<<Grok, Grok3>>, Lens(<<Grok, Grok3>>), <<0>>, 9,
              {"xai"}, FALSE, FALSE, FALSE),
      \* the last round of a debate whose summarizer_index is null
      Request(<<Claude>>, Lens(<<Claude>>), <<>>, 10,
              AllKeys, FALSE, FALSE, FALSE),
      \* the last round of a continuation that comes with an image
      Request(<<Claude>>, Lens(<<Claude>>), <<0>>, 10,
              AllKeys, TRUE, FALSE, FALSE),
      \* a continuation of a debate whose last persisted round is round 10
      Request(<<Claude>>, Lens(<<Claude>>), <<0>>, 11,
              AllKeys, FALSE, TRUE, FALSE) }

Init ==
    \E r \in Requests :
        Construct(r, r.api_keys, r.images, r.user_id, r.user_memory_context)

Spec == Init /\ [][Next]_vars


\* the participants a configured list is drawn from: two vision-capable
\* (by provider, by model id) and two that are not
Pool == {Claude, Grok, DeepSeek, Grok3}

\* every configured participant list of at most MaxModels entries
ModelLists == UNION {[1..n -> Pool] : n \in 0..MaxModels}

\* new debates over every such list, with and without an image
ReorderRequests ==
    {Request(ms, Lens(ms), <<0>>, 1, AllKeys, imgs, FALSE, FALSE) :
        ms \in ModelLists, imgs \in BOOLEAN}

InitReorder ==
    \E r \in ReorderRequests :
        Construct(r, r.api_keys, r.images, r.user_id, r.user_memory_context)

\* the run up to the first turn of its first round
NextReorder ==
    \/ RunStart
    \/ RoundLoop
    \/ TurnHead

SpecReorder == InitReorder /\ [][NextReorder]_vars


\* the steps of run(): each is the code between two awaits
RunStep ==
    \/ RunStart
    \/ RoundLoop
    \/ TurnHead
    \/ InterventionSaved
    \/ AfterIntervention
    \/ OpenStream
    \/ NextChunk
    \/ MessageSaved
    \/ RoundEnd
    \/ AgreementReply
    \/ AfterAgreement
    \/ SummaryOpen
    \/ SummaryChunk
    \/ SummarySaved
    \/ AfterSummary
    \/ StatusWritten
    \/ ErrorWritten

\* the requests whose runs reach the cap of max_rounds within MaxRun rounds
LiveRequests ==
    {r \in Requests : r.start_round + MaxRun > max_rounds}
      \cup {Request(<<DeepSeek, Claude>>, Lens(<<DeepSeek, Claude>>), <<0>>, 9,
                    AllKeys, FALSE, TRUE, FALSE)}

InitLive ==
    \E r \in LiveRequests :
        Construct(r, r.api_keys, r.images, r.user_id, r.user_memory_context)

\* every provider stream is finite and every persistence and broadcast call
\* returns or raises: a step of run() that can be taken is taken
SpecLive == InitLive /\ [][Next]_vars /\ WF_vars(RunStep)


\* a continuation of two participants whose user sends several interventions
QueueRequests ==
    {Request(<<Grok, Grok3>>, Lens(<<Grok, Grok3>>), <<0>>, 9,
             {"xai"}, FALSE, FALSE, FALSE)}

InitQueue ==
    \E r \in QueueRequests :
        Construct(r, r.api_keys, r.images, r.user_id, r.user_memory_context)

NextQueue ==
    \/ Stop
    \/ AddInterventionRepeated
    \/ RunStart
    \/ RoundLoop
    \/ TurnHead
    \/ InterventionSaved
    \/ AfterIntervention
    \/ OpenStream
    \/ NextChunk
    \/ MessageSaved
    \/ RoundEnd
    \/ SummaryOpen
    \/ SummaryChunk
    \/ SummarySaved
    \/ AfterSummary
    \/ StatusWritten
    \/ ErrorWritten

SpecQueue == InitQueue /\ [][NextQueue]_vars


\* the hosting process: websockets are opened for two pending debates, each
\* orchestrator runs one round of one participant
InitHost ==
    \E r \in {Request(<<Claude>>, Lens(<<Claude>>), <<0>>, 1,
                      AllKeys, FALSE, FALSE, FALSE)} :
        Construct(r, r.api_keys, r.images, r.user_id, r.user_memory_context)

NextHost ==
    \/ WebSocketAccept
    \/ StartPending
    \/ ReceiveStop
    \/ ReceiveIntervention
    \/ WebSocketClosed
    \/ StopRoute
    \/ TaskRunStart
    \/ TaskTurnHead
    \/ TaskMessageSaved
    \/ TaskStatusWritten

SpecHost == InitHost /\ [][NextHost]_vars


(* ------------------------- reading the history ------------------------- *)
EventsOf(type) == {i \in 1..Len(events) : events[i].type = type}

DebateEnd(st) == \E i \in EventsOf("debate_end") : events[i].detail = st

\* stop() was not called while run() was running
NotStopped == stopAt = "never"

\* the request itself makes _generate_summary raise (lines 403-406)
ConfigRaises ==
    /\ models # <<>>
    /\ \/ summarizer_index = <<>>
       \/ /\ summarizer_index[1] < Len(models)
          /\ ~PyIndexOk(models, summarizer_index[1])

\* the participant that produced a message
ParticipantOf(msg) ==
    CHOOSE m \in Range(models) :
        m.model_name = msg.model_name /\ m.provider = msg.provider

Responses == {i \in 1..Len(messages) : messages[i].provider # "user"}
FirstResponse == messages[CHOOSE i \in Responses : \A j \in Responses : i <= j]

\* participant m began a turn in round r: model_start or model_error
TookTurn(m, r) ==
    \E i \in 1..Len(events) :
        /\ events[i].type \in {"model_start", "model_error"}
        /\ events[i].model_name = m.model_name
        /\ events[i].round = r

\* every participant took its turn in every round that has ended
RoundsComplete ==
    \A i \in EventsOf("round_end") :
        \A m \in Range(models) : TookTurn(m, events[i].round)

\* the text of an intervention is part of a context
InContext(content, context) ==
    \E k \in 1..Len(context) :
        /\ context[k].kind = "msg"
        /\ context[k].name = "User"
        /\ context[k].content = content

TurnCalls == {j \in 1..Len(calls) : calls[j].kind = "turn"}

(* ------------------------------- claims -------------------------------- *)
\* C1 (as stated): when stop() is called before run() emits its terminal
\* event and no exception reaches run()'s handler, the run ends with
\* persisted status 'stopped' and debate_end{stopped}, never 'completed'.
C1_StopAtAnyPointEndsStopped ==
    (pc = "done" /\ ~escaped /\ stopAt # "never")
        => /\ dbStatus = "stopped"
           /\ DebateEnd("stopped")
           /\ ~DebateEnd("completed")

\* C1 (amended): when stop() is called before run() reads the flag to choose
\* its final status (line 152), 'completed' is never persisted nor announced,
\* and a run that no exception aborts ends with persisted status 'stopped'
\* and debate_end{stopped}.
C1_StopBeforeStatusChoiceEndsStopped ==
    /\ stopAt = "running"
          => dbStatus # "completed" /\ ~DebateEnd("completed")
    /\ (pc = "done" /\ ~escaped /\ stopAt \notin {"never", "status_write"})
          => /\ dbStatus = "stopped"
             /\ DebateEnd("stopped")

C1_Witness ==
    /\ pc = "done" /\ stopAt = "running" /\ dbStatus = "stopped" /\ DebateEnd("stopped")
    /\ EventsOf("chunk") # {}

\* C2: a debate configured with R rounds, started at round 1, all credentials
\* present, no failure, no stop, no intervention, runs exactly R rounds,
\* persists exactly R x N messages of round >= 1 and at most one of round 0,
\* and ends with debate_end{completed}.
C2_FixedRoundsRunExactlyR ==
    (/\ pc = "done"
     /\ start_round = 1
     /\ \A m \in Range(models) : m.provider \in api_keys
     /\ faults = <<>> /\ ~escaped /\ stopAt = "never" /\ enq = <<>>)
        => /\ Cardinality(EventsOf("round_start")) = config.rounds
           /\ Cardinality({i \in 1..Len(dbMessages) : dbMessages[i].round >= 1})
                 = config.rounds * N
           /\ Cardinality({i \in 1..Len(dbMessages) : dbMessages[i].round = 0}) <= 1
           /\ DebateEnd("completed")

\* C3: whenever the agreement checker is invoked after round r, r >= 2 and
\* every participant has at least 2 messages of its own in the transcript.
C3_CheckOnlyAfterEveryoneSpokeTwice ==
    \A i \in 1..Len(checks) :
        /\ checks[i].round >= 2
        /\ \A k \in 1..N : checks[i].counts[k] >= 2

\* C4: an intervention enqueued during participant k's turn is absent from the
\* context of k's turn and present in the context of the next participant turn.
C4_InterventionReachesNextTurn ==
    \A i \in 1..Len(enq) :
        enq[i].turn > 0 =>
            \A j \in TurnCalls :
                /\ calls[j].turn = enq[i].turn
                      => ~InContext(enq[i].content, calls[j].context)
                /\ calls[j].turn = enq[i].turn + 1
                      => InContext(enq[i].content, calls[j].context)

\* C5: a context built in round 1 contains no message of the transcript: it is
\* the context that is built when nobody has spoken yet.
C5_Round1ContextHidesTranscript ==
    \A j \in TurnCalls :
        calls[j].round = 1 =>
            /\ \A k \in 1..Len(calls[j].context) : calls[j].context[k].kind # "msg"
            /\ calls[j].context
                  = _build_context(1, <<>>, user_memory_context, previous_context)

C5_Witness ==
    /\ pc = "chunk" /\ round_num = 1
    /\ \E i \in Responses : /\ messages[i].round = 1
                            /\ messages[i].model_name # Current.model_name
                            /\ messages[i].content # <<>>

C7_AgreementEndsTheLoop ==
    /\ Cardinality(EventsOf("agreement_reached")) <= 1
    /\ agreement_reached <=> EventsOf("agreement_reached") # {}
    /\ agreement_reached =>
          /\ pc \notin LoopPcs
          /\ round_num >= 2 /\ round_num <= max_rounds
          /\ \A i \in EventsOf("agreement_reached") :
                /\ events[i].round = round_num
                /\ \E j \in EventsOf("round_end") :
                      j < i /\ events[j].round = round_num
          /\ \A i \in EventsOf("round_start") : events[i].round <= round_num
          /\ \A i \in EventsOf("round_end") : events[i].round <= round_num

C7_Witness ==
    /\ pc = "done" /\ agreement_reached /\ round_num = 2
    /\ DebateEnd("completed")

\* C8: a participant whose provider has no credential gets model_error and no
\* model_start in each of its turns, no stream is opened and no message is
\* recorded for it, the other participants still take their turns, and a run
\* with no stop and no failure ends 'completed'.
C8_MissingCredentialSkipsTheTurn ==
    /\ \A m \in Range(models) :
          m.provider \notin api_keys =>
             /\ \A i \in EventsOf("model_start") : events[i].model_name # m.model_name
             /\ \A j \in 1..Len(calls) :
                   calls[j].kind \in {"turn", "summary"}
                      => calls[j].model_name # m.model_name
             /\ \A i \in 1..Len(messages) : messages[i].model_name # m.model_name
             /\ \A i \in 1..Len(dbMessages) : dbMessages[i].model_name # m.model_name
             /\ \A i \in EventsOf("round_end") :
                   ~stopped =>
                      \E e \in EventsOf("model_error") :
                         /\ e < i
                         /\ events[e].model_name = m.model_name
                         /\ events[e].round = events[i].round
                         /\ events[e].detail = "no_api_key"
    /\ ~stopped => RoundsComplete
    /\ (/\ pc = "done"
        /\ \E m \in Range(models) : m.provider \notin api_keys
        /\ NotStopped /\ faults = <<>> /\ ~ConfigRaises)
          => dbStatus = "completed" /\ DebateEnd("completed")

C8_Witness ==
    /\ pc = "done" /\ dbStatus = "completed"
    /\ \E m \in Range(models) : m.provider \notin api_keys
    /\ \E m \in Range(models) :
          /\ m.provider \in api_keys
          /\ OwnCount(messages, m) = 2

\* C9: when the stream or the persistence write of a participant's turn
\* raises, model_error is emitted for it, no message of that turn is recorded,
\* the later participants and the later rounds still run, and the run does
\* not end in 'error'.
C9_TurnFailureIsContained ==
    /\ Cardinality({k \in 1..Len(faults) : faults[k] \in {"stream", "save"}})
          = Cardinality({i \in EventsOf("model_error") :
                            events[i].detail = "exception"})
    /\ \A i \in EventsOf("model_error") :
          events[i].detail = "exception" =>
             /\ \A k \in 1..Len(messages) :
                   ~(/\ messages[k].round = events[i].round
                     /\ messages[k].model_name = events[i].model_name)
             /\ \A k \in 1..Len(dbMessages) :
                   ~(/\ dbMessages[k].round = events[i].round
                     /\ dbMessages[k].model_name = events[i].model_name)
    /\ (Range(faults) \subseteq {"stream", "save"} /\ ~ConfigRaises)
          => /\ ~escaped
             /\ dbStatus # "error"
             /\ EventsOf("error") = {}
             /\ ~stopped => RoundsComplete
             /\ (pc = "done" /\ NotStopped /\ ~agreement_reached)
                   => \A r \in start_round..max_rounds :
                         \E i \in EventsOf("round_start") : events[i].round = r

C9_Witness ==
    /\ pc = "done" /\ dbStatus = "completed"
    /\ faults = <<"stream">>
    /\ \E i \in EventsOf("model_error") :
          /\ events[i].detail = "exception"
          /\ events[i].model_name = models[1].model_name
          /\ \E j \in EventsOf("model_end") :
                /\ j > i
                /\ events[j].round = events[i].round
                /\ events[j].model_name # events[i].model_name
          /\ \E j \in EventsOf("round_start") : events[j].round > events[i].round

\* C10: when the summary stream or the persistence of the summary raises,
\* summary_error is emitted, and the run (not stopped, nothing else failing)
\* still persists 'completed' and emits debate_end{completed}.
C10_SummaryFailureKeepsCompleted ==
    /\ (\E k \in 1..Len(faults) : faults[k] \in {"summary_stream", "summary_save"})
          => /\ EventsOf("summary_error") # {}
             /\ EventsOf("summary_end") = {}
    /\ (/\ faults # <<>>
        /\ Range(faults) \subseteq {"summary_stream", "summary_save"}
        /\ ~ConfigRaises)
          => /\ ~escaped
             /\ dbStatus # "error"
             /\ (pc = "done" /\ NotStopped)
                   => dbStatus = "completed" /\ DebateEnd("completed")

C10_Witness ==
    /\ pc = "done" /\ NotStopped
    /\ faults = <<"summary_save">>
    /\ EventsOf("summary_error") # {}
    /\ dbStatus = "completed" /\ DebateEnd("completed")

\* statuses that end a debate
Terminal == {"completed", "stopped", "error"}

\* C11: when run() has returned, the persisted status is 'error' if and only
\* if an exception reached the handler of run(); in that case an error event
\* was emitted, 'error' is the persisted status and no debate_end was emitted.
C11_ErrorIffExceptionEscaped ==
    pc = "done" =>
        /\ dbStatus = "error" <=> escaped
        /\ escaped => /\ EventsOf("error") # {}
                      /\ dbStatus = "error"
                      /\ EventsOf("debate_end") = {}

\* C12: the statuses run() persists are 'running' followed by
\* exactly one terminal status, and nothing after it.
C12_RunningThenOneTerminal ==
    /\ Len(statusLog) <= 2
    /\ Len(statusLog) >= 1 => statusLog[1] = "running"
    /\ Len(statusLog) = 2 => statusLog[2] \in Terminal
    /\ pc = "done" => Len(statusLog) = 2

\* C13: once run() has found the stop flag set at a checkpoint of its loops
\* (the round-loop condition, the check before a participant's turn, the
\* check inside the chunk loop), it emits no model_start any more.
C13_NoModelStartAfterStopObserved ==
    observedAt # <<>> =>
        \A i \in EventsOf("model_start") : i <= observedAt[1]

C13_Witness ==
    /\ pc = "done" /\ observedAt # <<>> /\ N = 2
    /\ EventsOf("chunk") # {}
    /\ Cardinality(EventsOf("model_start")) = 1
    /\ \A i \in EventsOf("model_start") : i < observedAt[1]

\* rows of the messages table that hold a summary (sentinel round 0)
SummaryRows == {i \in 1..Len(dbMessages) : dbMessages[i].round = 0}

\* C14: when run() has returned and a summary was produced (summary_end
\* emitted or a round-0 message persisted), the persisted status is
\* 'completed'.
C14_SummaryOnlyWhenCompleted ==
    (pc = "done" /\ (SummaryRows # {} \/ EventsOf("summary_end") # {}))
        => dbStatus = "completed"

\* C15: run() never waits for the memory-extraction task: the final status
\* write can complete while the task is still running, and the end of the
\* task, failure included, changes neither the persisted status and messages
\* nor the emitted events nor the position of run().
C15_MemoryTaskIsDetached ==
    /\ [](pc = "status_write" => ENABLED StatusWritten)
    /\ [][memTask' # memTask /\ memTask = "spawned"
            => UNCHANGED <<dbStatus, statusLog, dbMessages, events, pc>>]_vars

C15_Witness ==
    /\ pc = "done" /\ memTask = "failed"
    /\ dbStatus = "completed" /\ DebateEnd("completed")

\* C16: a failure to deliver an event does not abort the debate: a run in
\* which nothing but deliveries failed has no exception reach the handler of
\* run(), never persists 'error', and ends 'completed' or 'stopped' with
\* debate_end.
C16_DeliveryFailureDoesNotAbort ==
    (Range(faults) \subseteq {"delivery"} /\ ~ConfigRaises)
        => /\ ~escaped
           /\ dbStatus # "error"
           /\ EventsOf("error") = {}
           /\ pc = "done" => /\ dbStatus \in {"completed", "stopped"}
                             /\ DebateEnd(dbStatus)

\* the agreement check is due and no provider of check_models has a credential
NoCheckProvider ==
    /\ pc = "round_end"
    /\ round_num >= 2 /\ Len(messages) >= N * 2
    /\ CheckProviders = {}

\* C17: when _check_agreement cannot be carried out (no provider of its
\* preference list has a credential, or the provider call raises) the step
\* emits nothing, sets no agreement, leaves the persisted status alone and
\* goes to the loop condition with the next round number; the loop condition
\* starts that round unless the run is stopped or the cap is passed; a run in
\* which nothing else failed does not end 'error'.
C17_CheckFailureMeansNoAgreement ==
    /\ [][((NoCheckProvider /\ faults' = faults) \/ (pc = "agree_wait" /\ faults' # faults))
            => /\ pc' = "loop" /\ round_num' = round_num + 1
               /\ ~agreement_reached'
               /\ UNCHANGED <<events, dbStatus, statusLog, escaped>>]_<<pc, faults>>
    /\ [][(pc = "loop" /\ pc' # pc /\ ~stopped /\ round_num <= max_rounds)
            => /\ pc' = "turn"
               /\ events' = Append(events, Ev("round_start", "", round_num, <<>>, ""))]_vars
    /\ [](agreement_reached => CheckProviders # {})
    /\ []((pc = "done" /\ ~ConfigRaises
             /\ \A k \in 1..Len(faults) : faults[k] = "agreement")
           => dbStatus \in {"completed", "stopped"})

C17_Witness ==
    /\ pc = "done" /\ CheckProviders = {} /\ checks # <<>>
    /\ Len(latest_responses(messages, N)) >= 2
    /\ ~agreement_reached /\ dbStatus = "completed"

\* the participant a provider stream was opened for
CalledParticipant(call) ==
    CHOOSE m \in Range(models) : m.model_name = call.model_name

\* C18: a provider stream is given the image attachments only when the round
\* number is 1 and the participant is vision-capable; in every round >= 2,
\* and in the summary and agreement-check calls, no images are passed.
C18_ImagesOnlyInRound1ToVision ==
    \A j \in 1..Len(calls) :
        IF calls[j].kind = "turn"
        THEN calls[j].images <=> /\ images
                                 /\ calls[j].round = 1
                                 /\ _supports_vision(CalledParticipant(calls[j]))
        ELSE ~calls[j].images

\* images attached: a vision-capable participant got them in round 1 and not
\* in round 2, the other participant never, and the checker and the
\* summarizer were called
C18_Witness ==
    /\ pc = "done" /\ images
    /\ \E j \in TurnCalls : calls[j].round = 1 /\ calls[j].images
    /\ \E j \in TurnCalls : /\ calls[j].round = 1
                            /\ ~_supports_vision(CalledParticipant(calls[j]))
    /\ \E j \in TurnCalls : /\ calls[j].round >= 2
                            /\ _supports_vision(CalledParticipant(calls[j]))
    /\ \E j \in 1..Len(calls) : calls[j].kind = "agreement"
    /\ \E j \in 1..Len(calls) : calls[j].kind = "summary"

\* out is the stable vision-first partition of in: a rearrangement p of the
\* positions that puts every vision-capable entry before every other entry
\* and keeps the order of the entries of either group
StablePartition(in, out) ==
    /\ Len(out) = Len(in)
    /\ \E p \in [1..Len(in) -> 1..Len(in)] :
          /\ \A i, j \in 1..Len(in) : i # j => p[i] # p[j]
          /\ \A i \in 1..Len(in) : out[p[i]] = in[i]
          /\ \A i, j \in 1..Len(in) :
                /\ (_supports_vision(in[i]) /\ ~_supports_vision(in[j]))
                      => p[i] < p[j]
                /\ (i < j /\ _supports_vision(in[i]) = _supports_vision(in[j]))
                      => p[i] < p[j]

\* C19: with images attached, the participant order after construction is a
\* permutation of the configured list in which every vision-capable
\* participant precedes every other participant and the relative order inside
\* each of the two groups is the configured one; with no images attached the
\* order is the configured order unchanged.
C19_StableVisionFirstOrder ==
    IF images
    THEN StablePartition(config.models, models)
    ELSE models = config.models

\* an image and two different non-vision participants configured ahead of a
\* vision-capable one: the order changed, and the run has begun its first turn
C19_Witness ==
    /\ images
    /\ models # config.models
    /\ \E i, j, k \in 1..Len(config.models) :
          /\ i < j /\ j < k
          /\ ~_supports_vision(config.models[i])
          /\ ~_supports_vision(config.models[j])
          /\ config.models[i] # config.models[j]
          /\ _supports_vision(config.models[k])
    /\ EventsOf("model_start") # {}

\* the position in the turn order of the participant that produced a message
PosOf(msg) ==
    CHOOSE k \in 1..N : /\ models[k].model_name = msg.model_name
                        /\ models[k].provider = msg.provider

\* participant messages in non-decreasing round order and, within one round,
\* in strictly increasing participant order
Ordered(t) ==
    \A i, j \in 1..Len(t) :
        (i < j /\ t[i].provider # "user" /\ t[j].provider # "user")
            => \/ t[i].round < t[j].round
               \/ /\ t[i].round = t[j].round
                  /\ PosOf(t[i]) < PosOf(t[j])

IsPrefix(s, t) == Len(s) <= Len(t) /\ \A i \in 1..Len(s) : s[i] = t[i]

\* C20: in every reachable state the transcript is append-only and ordered:
\* participant messages appear in non-decreasing round order, within one round
\* in participant order (after vision reordering), and each participant has
\* at most one message per round.
C20_TranscriptAppendOnlyOrdered ==
    /\ [](/\ Ordered(messages)
          /\ \A m \in Range(models) : \A r \in 1..max_rounds :
                Cardinality({i \in Responses :
                               /\ messages[i].round = r
                               /\ messages[i].model_name = m.model_name}) <= 1)
    /\ [][IsPrefix(messages, messages')]_vars

\* two full rounds of two participants whose order the image changed, and an
\* intervention among their messages
C20_Witness ==
    /\ images /\ models # config.models /\ N = 2
    /\ Cardinality(Responses) = 4
    /\ \E i \in 1..Len(messages) : messages[i].provider = "user"
    /\ \E i, j \in Responses : messages[i].round < messages[j].round

\* run() is at the head of the participant loop, of the round loop, or at the
\* end of a round: no turn is in progress
BetweenTurns == pc \in {"loop", "turn", "round_end", "agree_wait", "finish"}

\* the persisted records of this run with round >= 1
DebateRows == SelectSeq(dbMessages, LAMBDA row : row.round >= 1)

\* C21: every message run() generates is persisted exactly once: whenever
\* run() is between participant turns, the persisted records of this run with
\* round >= 1 are, one for one and in the same order, the messages of the
\* in-memory transcript (participant messages and User interventions).
C21_PersistedOnceInTranscriptOrder ==
    (BetweenTurns \/ (pc = "done" /\ ~escaped)) => DebateRows = messages

\* a round has ended with an intervention and two participant messages in the
\* transcript, every one of them persisted
C21_Witness ==
    /\ pc = "round_end"
    /\ \E i \in 1..Len(messages) : messages[i].provider = "user"
    /\ Cardinality(Responses) >= 2
    /\ Len(dbMessages) = Len(messages)

\* the round numbers of the round_start events, in order of emission
RoundStarts ==
    LET idx == EventsOf("round_start")
        Seq_ == SelectSeq([i \in 1..Len(events) |-> i], LAMBDA i : i \in idx)
    IN  [k \in 1..Len(Seq_) |-> events[Seq_[k]].round]

\* C22: if every provider stream is finite and every persistence and broadcast
\* call returns, run() terminates: it runs at most the rounds numbered from
\* the start round up to the cap of 10 (no round_start carries a round number
\* above 10, and round numbers are consecutive), and it eventually emits
\* debate_end or error.
C22_RunTerminatesWithinCap ==
    /\ [](\A k \in 1..Len(RoundStarts) :
             /\ RoundStarts[k] = start_round + k - 1
             /\ RoundStarts[k] <= max_rounds)
    /\ <>(pc = "done")
    /\ <>(EventsOf("debate_end") # {} \/ EventsOf("error") # {})

\* a continuation from round 9 ran rounds 9 and 10, found no agreement and
\* ended at the cap with debate_end
C22_Witness ==
    /\ pc = "done"
    /\ RoundStarts = <<max_rounds - 1, max_rounds>>
    /\ ~agreement_reached
    /\ checks # <<>>
    /\ EventsOf("debate_end") # {}

\* the contents of the User messages of the transcript, in transcript order
UserContents ==
    LET u == SelectSeq(messages, LAMBDA msg : msg.provider = "user")
    IN  [k \in 1..Len(u) |-> u[k].content]

\* the contents handed to add_intervention, in the order of the calls
EnqueuedContents == [k \in 1..Len(enq) |-> enq[k].content]

\* C23: interventions are consumed in the order they were enqueued, each at
\* most once, and at most one intervention is consumed per participant turn;
\* the User messages of the transcript therefore appear in enqueue order.
C23_InterventionsFifoOncePerTurn ==
    /\ [](UserContents \o queue = EnqueuedContents)
    /\ [][Len(UserContents') # Len(UserContents)
            => /\ Len(UserContents') = Len(UserContents) + 1
               /\ turnNo' = turnNo + 1]_vars

\* two interventions were waiting at once and both were consumed, in two
\* different turns
C23_Witness ==
    /\ Len(UserContents) >= 2
    /\ \E i \in TurnCalls : /\ InContext(EnqueuedContents[1], calls[i].context)
                            /\ ~InContext(EnqueuedContents[2], calls[i].context)
    /\ \E i \in 1..Len(enq) : i >= 2 /\ enq[i].turn = enq[1].turn

\* among the first k - 1 events there is a model_start that no model_end or
\* model_error follows: a participant's turn is in progress
TurnOpenBefore(k) ==
    \E i \in 1..(k - 1) :
        /\ events[i].type = "model_start"
        /\ \A j \in (i + 1)..(k - 1) :
              events[j].type \notin {"model_end", "model_error"}

\* C24: an intervention is injected only between turns: the recording of a
\* User message and its user_intervention event never occur between a
\* participant's model_start and that turn's model_end or model_error.
C24_InterventionOnlyBetweenTurns ==
    /\ [](\A u \in EventsOf("user_intervention") : ~TurnOpenBefore(u))
    /\ [][(Len(messages') > Len(messages)
             /\ messages'[Len(messages')].provider = "user")
            => ~TurnOpenBefore(Len(events) + 1)]_vars

\* an intervention sent while a participant was streaming was recorded after
\* that turn's model_end and before the next model_start
C24_Witness ==
    /\ \E i \in 1..Len(enq) : enq[i].turn > 0
    /\ \E u \in EventsOf("user_intervention") :
          /\ \E e \in EventsOf("model_end") : e < u
          /\ \E b \in EventsOf("model_start") : b > u
          /\ \E c \in EventsOf("chunk") : c < u

\* the fields of orchestrator o that the claim names
PrivateState(o) ==
    <<orchestrators[o].messages, orchestrators[o].stopped, orchestrators[o].queue>>

\* C25: with two orchestrators for different debates running interleaved,
\* stop(), add_intervention() and every step of run() on one debate leave the
\* other debate's transcript, stop flag and intervention queue unchanged.
C25_DebatesDoNotShareState ==
    [][\A o \in 1..Len(orchestrators) :
          (/\ actor' # 0
           /\ orchestrators'[actor'].debate # orchestrators[o].debate)
             => PrivateState(o)' = PrivateState(o)]_vars

\* two orchestrators for different debates have both run to the end; one was
\* stopped, the other took an intervention into its transcript
C25_Witness ==
    /\ Len(orchestrators) = 2
    /\ orchestrators[1].debate # orchestrators[2].debate
    /\ \A o \in {1, 2} : orchestrators[o].pc = "done"
    /\ \E o, p \in {1, 2} :
          /\ orchestrators[o].stopped /\ ~orchestrators[p].stopped
          /\ Len(orchestrators[p].messages) = 2
          /\ orchestrators[o].messages = <<>>

\* C26: for each pending debate at most one orchestrator is created and at
\* most one run() task is started, even when several WebSocket connections
\* for the same pending debate are opened concurrently.
C26_OneOrchestratorPerPendingDebate ==
    \A d \in Debates :
        Cardinality({o \in 1..Len(orchestrators) : orchestrators[o].debate = d}) <= 1

\* the labelled messages a context shows, in the order it shows them
ShownMessages(context) == SelectSeq(context, LAMBDA seg : seg.kind = "msg")

\* C27: in every round >= 2 (including the first round of a continuation) the
\* context built for a participant contains every message that is in the
\* transcript at that moment (all participants' messages, its own earlier
\* messages and User interventions), each labelled with its speaker name, in
\* transcript order.
C27_LaterRoundsSeeWholeTranscript ==
    [][(Len(calls') = Len(calls) + 1
          /\ calls'[Len(calls')].kind = "turn"
          /\ calls'[Len(calls')].round >= 2)
        => ShownMessages(calls'[Len(calls')].context)
             = [i \in 1..Len(messages) |->
                   Seg("msg", messages[i].model_name, messages[i].content)]]_vars

\* a context of a round >= 2 shows an intervention, a message of another
\* participant and an earlier message of the participant itself
C27_Witness ==
    \E j \in TurnCalls :
        /\ calls[j].round >= 2
        /\ \E a, b, c \in 1..Len(calls[j].context) :
              /\ calls[j].context[a].kind = "msg"
              /\ calls[j].context[a].name = "User"
              /\ calls[j].context[b].kind = "msg"
              /\ calls[j].context[b].name = calls[j].model_name
              /\ calls[j].context[c].kind = "msg"
              /\ calls[j].context[c].name \notin {"User", calls[j].model_name}

RECURSIVE Concatenation(_)
\* the concatenation of a sequence of strings
Concatenation(parts) ==
    IF parts = <<>> THEN <<>>
    ELSE Head(parts) \o Concatenation(Tail(parts))

\* the contents of the chunk events among events[from..to], in order
ChunkContents(from, to) ==
    LET part == SelectSeq(SubSeq(events, from, to), LAMBDA ev : ev.type = "chunk")
    IN  [k \in 1..Len(part) |-> part[k].content]

\* the model_start of the turn that event e belongs to
TurnStartOf(e) ==
    CHOOSE b \in EventsOf("model_start") :
        b < e /\ \A c \in EventsOf("model_start") : c < e => c <= b

\* C28: for every participant turn that ends with model_end, the persisted
\* message content equals the concatenation, in order, of the contents of the
\* chunk events emitted for that turn, and each chunk event is emitted before
\* the next fragment is requested from the provider.
C28_PersistedContentIsTheChunks ==
    /\ \A e \in EventsOf("model_end") :
          /\ \E r \in 1..Len(dbMessages) :
                /\ dbMessages[r].round = events[e].round
                /\ dbMessages[r].model_name = events[e].model_name
          /\ \A r \in 1..Len(dbMessages) :
                (/\ dbMessages[r].round = events[e].round
                 /\ dbMessages[r].model_name = events[e].model_name)
                    => dbMessages[r].content
                          = Concatenation(ChunkContents(TurnStartOf(e), e))
    /\ pc = "chunk" =>
          /\ Len(full_response) = chunkPos
          /\ \E b \in EventsOf("model_start") :
                Concatenation(ChunkContents(b, Len(events))) = full_response

\* a turn whose two fragments were forwarded and persisted, and a turn that
\* stop() cut short after its first fragment
C28_Witness ==
    /\ pc = "done"
    /\ \E r \in 1..Len(dbMessages) :
          dbMessages[r].round >= 1 /\ Len(dbMessages[r].content) = MaxChunks
    /\ \E r \in 1..Len(dbMessages) :
          /\ dbMessages[r].round >= 1
          /\ dbMessages[r].provider # "user"
          /\ Len(dbMessages[r].content) = 1
          /\ config.streamLen[dbMessages[r].model_name] = MaxChunks
    /\ Cardinality(EventsOf("model_end")) >= 2

DISAGREE == <<"D", "I", "S", "A", "G", "R", "E", "E">>

\* C29: when the checker model's complete response is the word DISAGREE (in
\* any letter case), the Agreement Checker returns 'no agreement', no
\* agreement_reached is emitted, and the loop continues with the next round.
C29_DisagreeMeansNoAgreement ==
    StrUpper(check_response) = DISAGREE
        => /\ ~agreement_reached
           /\ EventsOf("agreement_reached") = {}
           /\ pc = "loop"

\* C30: after stop() has been called, no new participant turn is started: no
\* model_start is emitted and no participant provider stream is opened from
\* then on, even when stop() arrives while a pending intervention is being
\* persisted and broadcast just before a turn.
C30_NoTurnStartsAfterStop ==
    [][stopped =>
          /\ ~(/\ Len(events') > Len(events)
               /\ events'[Len(events')].type = "model_start")
          /\ ~(/\ Len(calls') > Len(calls)
               /\ calls'[Len(calls')].kind = "turn")]_vars

\* C31: across run(), the stop route and the WebSocket clean-up, once the
\* persisted status of a debate run is 'completed', 'stopped' or 'error', no
\* later write of that run replaces it with a different status; in particular
\* a 'stopped' written by the stop route (taken when the orchestrator is no
\* longer registered in active_debates) is never overwritten by 'completed'
\* from a run() still in progress.
C31_TerminalStatusNeverReplaced ==
    [][\A d \in Debates :
          debateRows[d] \in Terminal => debateRows'[d] = debateRows[d]]_vars

\* C32: when run() emits its terminal event (debate_end{status} or error),
\* the persisted debate status already equals the status that the event
\* announces ('completed'/'stopped' for debate_end, 'error' for error).
C32_StatusPersistedBeforeTerminalEvent ==
    [][Len(events') > Len(events) =>
          LET e == events'[Len(events')] IN
          /\ e.type = "debate_end" => dbStatus' = e.detail
          /\ e.type = "error" => dbStatus' = "error"]_vars

\* the events that may not come between a model_start and its closing event
TurnBoundary == {"model_start", "round_end", "debate_end", "error"}

\* the first boundary event after event b, or the end of the log plus one
NextBoundary(b) ==
    LET later == {k \in (b + 1)..Len(events) : events[k].type \in TurnBoundary}
    IN  IF later = {} THEN Len(events) + 1
        ELSE CHOOSE k \in later : \A l \in later : k <= l

\* the closing events of the turn that began with event b
ClosingEvents(b) ==
    {k \in (b + 1)..(NextBoundary(b) - 1) :
        /\ events[k].type \in {"model_end", "model_error"}
        /\ events[k].model_name = events[b].model_name
        /\ events[k].round = events[b].round}

\* C33: every model_start is followed by exactly one closing event, model_end
\* or model_error, for the same participant and round, before any other
\* model_start, any round_end or the terminal event is emitted; chunk events
\* occur only between a model_start and its closing event.
C33_EveryTurnClosesOnce ==
    /\ \A b \in EventsOf("model_start") :
          /\ Cardinality(ClosingEvents(b)) <= 1
          /\ NextBoundary(b) <= Len(events) => Cardinality(ClosingEvents(b)) = 1
    /\ \A c \in EventsOf("chunk") : TurnOpenBefore(c)

\* C34: a message is persisted and model_end is emitted for a participant
\* turn only if the provider stream of that turn was consumed to its end; a
\* turn whose stream is cut short because the stop flag was observed in the
\* chunk loop persists no message and emits no model_end.
C34_OnlyCompleteStreamsArePersisted ==
    /\ \A r \in 1..Len(dbMessages) :
          (dbMessages[r].round >= 1 /\ dbMessages[r].provider # "user")
              => dbMessages[r].content
                    = StreamOfLen(config.streamLen[dbMessages[r].model_name])
    /\ \A e \in EventsOf("model_end") :
          Concatenation(ChunkContents(TurnStartOf(e), e))
              = StreamOfLen(config.streamLen[events[e].model_name])

\* C35: when images are attached and at least one vision-capable participant
\* has a credential and does not fail, at least one provider call of the run
\* receives the images, for every starting round, including continuations
\* whose start round is 2 or more.
C35_ImagesReachSomeProviderCall ==
    (/\ pc = "done"
     /\ images
     /\ faults = <<>> /\ ~stopped
     /\ \E e \in EventsOf("model_end") :
           \E m \in Range(models) : /\ m.model_name = events[e].model_name
                                    /\ _supports_vision(m)
                                    /\ m.provider \in api_keys)
        => \E j \in 1..Len(calls) : calls[j].images

\* C36: vision-first reordering does not change which participant is the
\* summarizer: the summary is produced by the participant that stood at
\* position summarizer_index in the configured (pre-reordering) participant
\* list.
C36_SummarizerIsTheConfiguredOne ==
    \A j \in 1..Len(calls) :
        calls[j].kind = "summary"
            => calls[j].model_name
                  = PyIndex(config.models, summarizer_index[1]).model_name

\* C37: for every summarizer_index the request schema admits (null, or any
\* integer, negative and out-of-range values included), a run with no stop and
\* no other failure ends with status 'completed', and when the index
\* designates no participant the summary is skipped without an error event.
C37_AnySummarizerIndexCompletes ==
    (pc = "done" /\ NotStopped /\ faults = <<>>)
        => /\ dbStatus = "completed"
           /\ EventsOf("error") = {}

\* run() has emitted its terminal event
TerminalEmitted == EventsOf("debate_end") # {} \/ EventsOf("error") # {}

\* the k-th intervention handed to add_intervention is a User message of the
\* transcript, a persisted record, and was announced by user_intervention
Recorded(k) ==
    /\ \E i \in 1..Len(messages) :
          messages[i].provider = "user" /\ messages[i].content = enq[k].content
    /\ \E i \in 1..Len(dbMessages) :
          /\ dbMessages[i].provider = "user"
          /\ dbMessages[i].content = enq[k].content
    /\ \E i \in EventsOf("user_intervention") :
          events[i].content = enq[k].content

\* C38: every intervention accepted by add_intervention before the run emits
\* its terminal event is eventually recorded as a User message in the
\* transcript, persisted, and announced by a user_intervention event.
C38_AcceptedInterventionIsRecorded ==
    \A k \in 1..MaxInterventions :
        (Len(enq) >= k /\ ~TerminalEmitted) ~> (Len(enq) >= k /\ Recorded(k))

\* C39: every run() that is never stopped executes at least one round: it
\* emits at least one round_start and gives every participant that has a
\* credential a turn, for every starting round >= 1 that a continuation can
\* produce, starting rounds above 10 included.
C39_UnstoppedRunExecutesARound ==
    (pc = "done" /\ NotStopped /\ faults = <<>> /\ start_round >= 1)
        => /\ EventsOf("round_start") # {}
           /\ \A m \in Range(models) :
                 m.provider \in api_keys
                    => \E i \in EventsOf("model_start") :
                          events[i].model_name = m.model_name

====
